---- MODULE Spec2Model ----
(***************************************************************************)
(* Model of the Sea of Conquest tutorial bot (Nobunaga-N/SoCv1.0.2).       *)
(*                                                                         *)
(* The bot object (src/src/core/bot.py) is driven by two kinds of thread:  *)
(* the GUI thread, which calls start/stop/pause/resume and delivers the    *)
(* settings-changed event, and the daemon worker threads that start()      *)
(* spawns and that execute _run.  A worker is cut into steps at the places *)
(* where it reads the flags the GUI thread writes: the head of the server  *)
(* loop, the body up to the tutorial call, the head of the step loop, the  *)
(* dispatch of a handler, the return of the handler, and the bookkeeping   *)
(* after a pass.                                                           *)
(***************************************************************************)
EXTENDS Integers, Sequences, FiniteSets, TLC

\* ------------------------------------------------------------------ bounds
MaxWorkers == 2        \* worker threads start() may spawn in one behaviour
MaxCalls == 3          \* GUI-thread calls that take effect in one behaviour
MinServer == 576       \* lowest server number the settings may name
ServerSpan == 1        \* settings name servers MinServer..MinServer+ServerSpan
NSteps == 2            \* length of the (abridged) tutorial step list
MaxRetryParam == 2     \* largest retry_count a catalog entry is given
MaxFailures == 1       \* handler failures while the GUI thread interferes
CatalogLen == 3        \* entries of the (abridged) TUTORIAL_STEPS_DATA
MaxBuilds == 3         \* bots constructed in one process
MaxTime == 12          \* the transport's clock stops here (half seconds)
MaxDuration == 1       \* longest device command (half seconds)
MaxPoints == 4         \* longest point list given to complex_swipe
MaxStatCalls == 4      \* calls made on one statistics object
MaxDevices == 2        \* devices the bridge tool lists
MaxBoxes == 3          \* candidate rectangles given to the suppression pass
TutorialLen == 3       \* steps of the list _complete_tutorial walks on its own
MaxDispatches == 4     \* handlers it calls in one behaviour
MaxAttempts == 4       \* largest max_attempts a repeat-click step is given
MaxPolls == 6          \* loop passes followed when max_attempts is 0
MaxTimeout == 4        \* longest timeout, in seconds, of a waiting step
MaxEscInterval == 3    \* longest esc_interval of a waiting step
Epoch == 100           \* clock reading when a waiting handler starts
MaxHistory == 2        \* entries of the history a snapshot holds
MaxClock == 3          \* seconds the panel is followed for
MaxPushes == 3         \* snapshots pushed to the panel

\* ------------------------------------------------------- program constants
DefaultRetryCount == 3
max_recovery_attempts == 3
FirstServer == 1       \* SEASON_SERVER_RANGES: the lowest server of a season
LastServer == 600      \* SEASON_SERVER_RANGES: the highest server of a season
min_action_interval == 3   \* ADB.min_action_interval = 1.5 s, in half seconds

Servers == MinServer..(MinServer + ServerSpan)
Workers == 1..MaxWorkers
Absent == <<>>         \* a step without a retry_count parameter
RetryParams == {Absent} \cup {<<r>> : r \in 0..MaxRetryParam}

VARIABLES
    running,           \* SeaConquestBot.running
    paused,            \* SeaConquestBot.paused
    stop_event,        \* SeaConquestBot._stop_event (is_set)
    settings,          \* BotSettings: start_server, end_server
    current_server,    \* SeaConquestBot.current_server
    current_season,    \* SeaConquestBot.current_season
    current_step_id,   \* SeaConquestBot.current_step_id
    retry_count,       \* step index -> the step's retry_count parameter
    statistics,        \* BotStatistics
    pc,                \* worker -> position in _run / _complete_tutorial
    step_index,        \* worker -> current_step_index of _complete_tutorial
    tutorial_success,  \* worker -> result of _complete_tutorial
    recovery_attempts, \* worker -> recovery_attempts of _run
    target_server,     \* worker -> target_server of an in-flight select_server
    nCalls,            \* number of GUI-thread calls that took effect so far
    ev,                \* the step just taken: its kind, thread and inputs
    hist               \* per-worker observations the properties refer to

\* The components the bot is built from, each modelled on its own.
VARIABLES
    steps_data,        \* TUTORIAL_STEPS_DATA as steps_data.py writes it
    catalog,           \* TUTORIAL_STEPS_DATA, the list object of the process
    built,             \* what the create_tutorial_steps() calls so far returned
    arg,               \* the argument of a function called on its own
    result,            \* what that call returned (<<>>: not called yet)
    adb,               \* the ADB transport object, its clock and last command
    stats,             \* a BotStatistics object on its own
    stat_calls,        \* the calls made on it so far, in order
    config_file        \* the JSON file at config_path (<<>>: no such file)

botVars == <<running, paused, stop_event, settings, current_server,
             current_season, current_step_id, retry_count, statistics, pc,
             step_index, tutorial_success, recovery_attempts, target_server,
             nCalls, ev, hist>>

libVars == <<steps_data, catalog, built, arg, result, adb, stats,
             stat_calls, config_file>>

vars == <<botVars, libVars>>

botFlags == <<running, paused, stop_event>>
progress == <<current_server, current_season, current_step_id>>
workerVars == <<pc, step_index, tutorial_success, recovery_attempts,
                target_server>>

\* ------------------------------------------------------------ pure helpers
\* helpers.get_season_for_server
get_season_for_server(server_number) ==
    IF server_number >= 577 THEN "S1"
    ELSE IF 541 <= server_number /\ server_number <= 576 THEN "S2"
    ELSE IF 505 <= server_number /\ server_number <= 540 THEN "S3"
    ELSE IF 481 <= server_number /\ server_number <= 504 THEN "S4"
    ELSE IF 433 <= server_number /\ server_number <= 480 THEN "S5"
    ELSE IF 409 <= server_number /\ server_number <= 432 THEN "X1"
    ELSE IF 266 <= server_number /\ server_number <= 407 THEN "X2"
    ELSE IF 1 <= server_number /\ server_number <= 264 THEN "X3"
    ELSE "unknown"

\* TutorialStep.get_param('retry_count', 3)
get_param_retry_count(i) ==
    IF retry_count[i] = Absent THEN DefaultRetryCount ELSE retry_count[i][1]

\* The abridged catalog: the server-selection step followed by plain clicks.
action_type(i) == IF i = 1 THEN "select_server" ELSE "click"

\* BotStatistics.add_success / add_failure / add_error, on the counters and
\* the two server lists.
add_success(st, server) ==
    [st EXCEPT !.success_count = @ + 1,
               !.completed_servers = Append(@, server)]

\* add_failure called after the server number was lowered.
AddFailureForLoweredServer(st, server) ==
    [st EXCEPT !.failure_count = @ + 1,
               !.failed_servers = Append(@, server - 1)]

add_failure(st, server) ==
    [st EXCEPT !.failure_count = @ + 1,
               !.failed_servers = Append(@, server)]

add_error(st) == [st EXCEPT !.error_count = @ + 1]

\* ------------------------------------------------------- recovery cascade
\* SeaConquestBot.restart_game: the results of close_app and start_app are
\* discarded; both swallow their own exceptions (ADB.close_app/start_app), so
\* the method reaches "return True" whatever the device answers.
restart_game(closeOk, startOk) == TRUE

\* SeaConquestBot.restart_emulator: Emulator.restart_emulator's result, with an
\* exception turned into False.
restart_emulator(reboot) == reboot = "ok"

\* _handle_error without the "return True" after a live screenshot.
HandleErrorNoShortCircuit(shot, closeOk, startOk, reboot) ==
    LET t2 == <<"screenshot", "restart_game">>
        t3 == Append(t2, "restart_emulator")
        t4 == Append(t3, "restart_game")
    IN  IF restart_game(closeOk, startOk)
        THEN [raised |-> FALSE, recovered |-> TRUE, trace |-> t2]
        ELSE IF ~restart_emulator(reboot)
        THEN [raised |-> FALSE, recovered |-> FALSE, trace |-> t3]
        ELSE [raised |-> FALSE,
              recovered |-> restart_game(closeOk, startOk),
              trace |-> t4]

\* _handle_error without the try/except around the screenshot.
HandleErrorUnguarded(shot, closeOk, startOk, reboot) ==
    IF shot = "raise"
    THEN [raised |-> TRUE, recovered |-> FALSE, trace |-> <<"screenshot">>]
    ELSE IF shot = "ok"
    THEN [raised |-> FALSE, recovered |-> TRUE, trace |-> <<"screenshot">>]
    ELSE [raised |-> FALSE, recovered |-> TRUE,
          trace |-> <<"screenshot", "restart_game">>]

\* SeaConquestBot._handle_error.  shot is what emulator.get_screenshot does:
\* "ok" (non-empty bytes), "empty" (falsy bytes) or "raise".  The result holds
\* the tiers attempted, in order, whether the method reported recovery, and
\* whether an exception left it.
HandleError(shot, closeOk, startOk, reboot) ==
    LET t1 == <<"screenshot">>
        t2 == Append(t1, "restart_game")
        t3 == Append(t2, "restart_emulator")
        t4 == Append(t3, "restart_game")
    IN  IF shot = "ok"
        THEN [raised |-> FALSE, recovered |-> TRUE, trace |-> t1]
        ELSE IF restart_game(closeOk, startOk)
        THEN [raised |-> FALSE, recovered |-> TRUE, trace |-> t2]
        ELSE IF ~restart_emulator(reboot)
        THEN [raised |-> FALSE, recovered |-> FALSE, trace |-> t3]
        ELSE [raised |-> FALSE,
              recovered |-> restart_game(closeOk, startOk),
              trace |-> t4]

\* ------------------------------------------------------------------ guards
\* Variants of the guards below, each wrong in one way the properties at the
\* end of the module tell apart from the code's guard.
StartIgnoringConnection(conn) == ~running
ServerRangeDoneLate(server) == server < settings.end_server - 1
NeverAbort == FALSE
RetryWhileNonNegative(rc) == rc >= 0
RecoveryRetryUnbounded(recovered, attempts) == recovered
RetryWhateverIsLeft(rc) == TRUE

\* start(): neither already running nor refused by the connectivity check.
StartProceeds(conn) == ~running /\ conn

\* _run, "if self.current_server < self.settings.end_server".
ServerRangeDone(server) == server < settings.end_server

\* _complete_tutorial, "if self._stop_event.is_set() or not self.running".
TutorialAbortRequested == stop_event \/ ~running

\* _complete_tutorial, "if retry_count > 0".
RetryAfterFailure(rc) == rc > 0

\* _run, "if self._handle_error(e) and recovery_attempts < max_recovery_attempts".
RecoveryRetry(recovered, attempts) ==
    recovered /\ attempts < max_recovery_attempts

\* ------------------------------------------------------------------- state
Spawned == {w \in Workers : pc[w] # "idle"}
Live == {w \in Workers : pc[w] \notin {"idle", "done"}}

NoHist == [afterStop |-> "none", passes |-> 0, att |-> 0, r0 |-> 0]

\* The bot as SeaConquestBot.__init__ leaves it, for the settings and the
\* retry_count parameters given.
Constructed(startServer, endServer, retries) ==
    /\ running = FALSE
    /\ paused = FALSE
    /\ stop_event = FALSE
    /\ settings = [start_server |-> startServer, end_server |-> endServer]
    /\ current_server = startServer
    /\ current_season = get_season_for_server(startServer)
    /\ current_step_id = 0
    /\ retry_count = retries
    /\ statistics = [success_count |-> 0, failure_count |-> 0, error_count |-> 0,
                     completed_servers |-> <<>>, failed_servers |-> <<>>,
                     start_time |-> 0]
    /\ pc = [w \in Workers |-> "idle"]
    /\ step_index = [w \in Workers |-> 0]
    /\ tutorial_success = [w \in Workers |-> FALSE]
    /\ recovery_attempts = [w \in Workers |-> 0]
    /\ target_server = [w \in Workers |-> 0]
    /\ nCalls = 0
    /\ ev = [kind |-> "init"]
    /\ hist = [w \in Workers |-> NoHist]

\* The components at rest, while the bot object is the subject.
LibIdle ==
    /\ steps_data = <<>>
    /\ catalog = <<>>
    /\ built = <<>>
    /\ arg = <<>>
    /\ result = <<>>
    /\ adb = <<>>
    /\ stats = <<>>
    /\ stat_calls = <<>>
    /\ config_file = <<>>

\* The shipped catalog gives no step a retry_count.
Init ==
    \E s \in Servers, e \in Servers :
        Constructed(s, e, [i \in 1..NSteps |-> Absent]) /\ LibIdle

\* A catalog whose steps are given any retry_count, or none.
InitWorker ==
    \E s \in Servers, e \in Servers, r \in [1..NSteps -> RetryParams] :
        Constructed(s, e, r) /\ LibIdle

\* ------------------------------------------------------------- GUI thread
\* SeaConquestBot.start.  conn is the result of emulator.check_connection().
Start(conn) ==
    /\ ev' = [kind |-> "start", conn |-> conn]
    /\ IF StartProceeds(conn)
       THEN LET w == CHOOSE v \in Workers \ Spawned :
                        \A u \in Workers \ Spawned : v <= u
            IN  /\ nCalls < MaxCalls
                /\ Spawned # Workers
                /\ nCalls' = nCalls + 1
                /\ running' = TRUE
                /\ paused' = FALSE
                /\ stop_event' = FALSE
                /\ statistics' = [statistics EXCEPT !.start_time = nCalls']
                /\ pc' = [pc EXCEPT ![w] = "run_while"]
                /\ recovery_attempts' = [recovery_attempts EXCEPT ![w] = 0]
                /\ hist' = [u \in Workers |->
                              [hist[u] EXCEPT !.afterStop = "none"]]
                /\ UNCHANGED <<step_index, tutorial_success, target_server>>
       ELSE UNCHANGED <<botFlags, statistics, workerVars, hist, nCalls>>
    /\ UNCHANGED <<settings, progress, retry_count>>
    /\ UNCHANGED libVars

\* SeaConquestBot.stop
Stop ==
    /\ ev' = [kind |-> "stop"]
    /\ IF ~running
       THEN UNCHANGED <<botFlags, hist, nCalls>>
       ELSE /\ nCalls < MaxCalls
            /\ nCalls' = nCalls + 1
            /\ stop_event' = TRUE
            /\ running' = FALSE
            /\ hist' = [u \in Workers |->
                          IF u \notin Live THEN hist[u]
                          ELSE IF pc[u] \in {"tut_dispatch", "handler"}
                          THEN [hist[u] EXCEPT !.afterStop = "stopped"]
                          ELSE [hist[u] EXCEPT !.afterStop = "quiet"]]
            /\ UNCHANGED paused
    /\ UNCHANGED <<settings, progress, retry_count, statistics, workerVars>>
    /\ UNCHANGED libVars

\* pause() without its two early returns.
PauseUnguarded ==
    /\ ev' = [kind |-> "pause"]
    /\ nCalls < MaxCalls
    /\ nCalls' = nCalls + 1
    /\ paused' = TRUE
    /\ UNCHANGED <<running, stop_event, settings, progress, retry_count,
                   statistics, workerVars, hist>>
    /\ UNCHANGED libVars

\* SeaConquestBot.pause
Pause ==
    /\ ev' = [kind |-> "pause"]
    /\ IF running /\ ~paused
       THEN /\ nCalls < MaxCalls
            /\ nCalls' = nCalls + 1
            /\ paused' = TRUE
       ELSE UNCHANGED <<paused, nCalls>>
    /\ UNCHANGED <<running, stop_event, settings, progress, retry_count,
                   statistics, workerVars, hist>>
    /\ UNCHANGED libVars

\* SeaConquestBot.resume
Resume ==
    /\ ev' = [kind |-> "resume"]
    /\ IF running /\ paused
       THEN /\ nCalls < MaxCalls
            /\ nCalls' = nCalls + 1
            /\ paused' = FALSE
       ELSE UNCHANGED <<paused, nCalls>>
    /\ UNCHANGED <<running, stop_event, settings, progress, retry_count,
                   statistics, workerVars, hist>>
    /\ UNCHANGED libVars

\* AdvancedTab._save_settings followed by MainWindow._on_settings_changed: the
\* spin-box values become the settings, and the bot's current server and
\* season are reset from them.
SettingsChanged(start, end) ==
    /\ nCalls < MaxCalls
    /\ nCalls' = nCalls + 1
    /\ ev' = [kind |-> "settings"]
    /\ settings' = [start_server |-> start, end_server |-> end]
    /\ current_server' = start
    /\ current_season' = get_season_for_server(start)
    /\ UNCHANGED <<botFlags, current_step_id, retry_count, statistics,
                   workerVars, hist>>
    /\ UNCHANGED libVars

\* ---------------------------------------------------------- worker thread
\* _run, line 144: "while self.running and not self._stop_event.is_set()".
RunWhile(w) ==
    /\ pc[w] = "run_while"
    /\ pc' = [pc EXCEPT ![w] = IF running /\ ~stop_event
                                THEN "run_body" ELSE "done"]
    /\ ev' = [kind |-> "while", w |-> w]
    /\ UNCHANGED <<botFlags, settings, progress, retry_count, statistics,
                   step_index, tutorial_success, recovery_attempts,
                   target_server, nCalls, hist>>
    /\ UNCHANGED libVars

\* _run, lines 146-166: the pause poll, the range check and the entry into
\* _complete_tutorial (current_step_index = 0).  raise: an exception leaves
\* the statements between the range check and the tutorial call.
RunBody(w, raise) ==
    /\ pc[w] = "run_body"
    /\ IF paused
       THEN /\ pc' = [pc EXCEPT ![w] = "run_while"]
            /\ ev' = [kind |-> "pause_poll", w |-> w]
            /\ UNCHANGED <<running, step_index, hist>>
       ELSE IF ServerRangeDone(current_server)
       THEN /\ running' = FALSE
            /\ pc' = [pc EXCEPT ![w] = "done"]
            /\ ev' = [kind |-> "range_done", w |-> w]
            /\ UNCHANGED <<step_index, hist>>
       ELSE IF raise
       THEN /\ pc' = [pc EXCEPT ![w] = "except"]
            /\ ev' = [kind |-> "raise", w |-> w]
            /\ UNCHANGED <<running, step_index, hist>>
       ELSE /\ pc' = [pc EXCEPT ![w] = "tut_while"]
            /\ step_index' = [step_index EXCEPT ![w] = 0]
            /\ hist' = [hist EXCEPT ![w].passes = IF @ < 2 THEN @ + 1 ELSE @,
                                    ![w].att = 0]
            /\ ev' = [kind |-> "begin_pass", w |-> w]
            /\ UNCHANGED running
    /\ UNCHANGED <<paused, stop_event, settings, progress, retry_count,
                   statistics, tutorial_success, recovery_attempts,
                   target_server, nCalls>>
    /\ UNCHANGED libVars

\* _complete_tutorial, lines 225-234: the loop condition, the stop check and
\* the pause poll.
TutWhile(w) ==
    /\ pc[w] = "tut_while"
    /\ IF step_index[w] >= NSteps
       THEN /\ tutorial_success' = [tutorial_success EXCEPT ![w] = TRUE]
            /\ pc' = [pc EXCEPT ![w] = "after_tut"]
            /\ ev' = [kind |-> "tut_done", w |-> w]
       ELSE IF TutorialAbortRequested
       THEN /\ tutorial_success' = [tutorial_success EXCEPT ![w] = FALSE]
            /\ pc' = [pc EXCEPT ![w] = "after_tut"]
            /\ ev' = [kind |-> "tut_interrupted", w |-> w]
       ELSE IF paused
       THEN /\ ev' = [kind |-> "pause_poll", w |-> w]
            /\ UNCHANGED <<pc, tutorial_success>>
       ELSE /\ pc' = [pc EXCEPT ![w] = "tut_dispatch"]
            /\ ev' = [kind |-> "tut_next", w |-> w]
            /\ UNCHANGED tutorial_success
    /\ UNCHANGED <<botFlags, settings, progress, retry_count, statistics,
                   step_index, recovery_attempts, target_server, nCalls, hist>>
    /\ UNCHANGED libVars

\* _complete_tutorial, lines 236-244: the step at current_step_index is
\* published and its handler is called (_execute_step).  select_server reads
\* its target on entry (steps_factory.py line 516).
TutDispatch(w) ==
    LET i == step_index[w] + 1 IN
    /\ pc[w] = "tut_dispatch"
    /\ current_step_id' = i
    /\ pc' = [pc EXCEPT ![w] = "handler"]
    /\ target_server' = [target_server EXCEPT ![w] =
            IF action_type(i) = "select_server" THEN current_server ELSE @]
    /\ hist' = [hist EXCEPT ![w].r0 =
            IF hist[w].att = 0 THEN get_param_retry_count(i) ELSE @]
    /\ ev' = [kind |-> "dispatch", w |-> w, step |-> i]
    /\ UNCHANGED <<botFlags, settings, current_server, current_season,
                   retry_count, statistics, step_index, tutorial_success,
                   recovery_attempts, nCalls>>
    /\ UNCHANGED libVars

\* The servers select_server may fall back to: recognised numbers strictly
\* below the target it read on entry (steps_factory.py lines 555-567).
Fallbacks(w) ==
    {s \in (MinServer - 1)..(MinServer + ServerSpan) : s < target_server[w]}

\* _complete_tutorial, lines 244-273: the handler returns.  ok is its success
\* flag; fb is the server a select_server fallback chose (0: no fallback was
\* taken, or the step is no select_server); the fallback's click may fail.
HandlerReturn(w, ok, fb) ==
    LET i == step_index[w] + 1
        rc == get_param_retry_count(i)
        stopMark == IF hist[w].afterStop = "stopped"
                    THEN "returned" ELSE hist[w].afterStop
    IN
    /\ pc[w] = "handler"
    /\ fb # 0 => action_type(i) = "select_server" /\ fb \in Fallbacks(w)
    /\ current_server' = IF fb # 0 THEN fb ELSE current_server
    /\ IF ok
       THEN /\ step_index' = [step_index EXCEPT ![w] = @ + 1]
            /\ pc' = [pc EXCEPT ![w] = "tut_while"]
            /\ hist' = [hist EXCEPT ![w].att = 0, ![w].afterStop = stopMark]
            /\ ev' = [kind |-> "handler_ok", w |-> w, step |-> i]
            /\ UNCHANGED <<retry_count, tutorial_success>>
       ELSE IF RetryAfterFailure(rc)
       THEN /\ retry_count' = [retry_count EXCEPT ![i] = <<rc - 1>>]
            /\ pc' = [pc EXCEPT ![w] = "tut_while"]
            /\ hist' = [hist EXCEPT ![w].att = @ + 1,
                                    ![w].afterStop = stopMark]
            /\ ev' = [kind |-> "handler_retry", w |-> w, step |-> i]
            /\ UNCHANGED <<step_index, tutorial_success>>
       ELSE /\ tutorial_success' = [tutorial_success EXCEPT ![w] = FALSE]
            /\ pc' = [pc EXCEPT ![w] = "after_tut"]
            /\ hist' = [hist EXCEPT ![w].att = @ + 1,
                                    ![w].afterStop = stopMark]
            /\ ev' = [kind |-> "handler_exhausted", w |-> w, step |-> i]
            /\ UNCHANGED <<step_index, retry_count>>
    /\ UNCHANGED <<botFlags, settings, current_season, current_step_id,
                   statistics, recovery_attempts, target_server, nCalls>>
    /\ UNCHANGED libVars

\* _run, lines 169-187: the pass is recorded, the server number is lowered and
\* the range check is repeated.
RunAfterTutorial(w) ==
    LET next == current_server - 1 IN
    /\ pc[w] = "after_tut"
    /\ statistics' = IF tutorial_success[w]
                     THEN add_success(statistics, current_server)
                     ELSE add_failure(statistics, current_server)
    /\ recovery_attempts' = [recovery_attempts EXCEPT ![w] =
                                IF tutorial_success[w] THEN 0 ELSE @]
    /\ current_server' = next
    /\ IF ServerRangeDone(next)
       THEN /\ running' = FALSE
            /\ pc' = [pc EXCEPT ![w] = "done"]
            /\ UNCHANGED current_season
       ELSE /\ current_season' = get_season_for_server(next)
            /\ pc' = [pc EXCEPT ![w] = "run_while"]
            /\ UNCHANGED running
    /\ ev' = [kind |-> "advance", w |-> w]
    /\ UNCHANGED <<paused, stop_event, settings, current_step_id, retry_count,
                   step_index, tutorial_success, target_server, nCalls, hist>>
    /\ UNCHANGED libVars

\* _run, lines 189-206: the exception handler of the loop body.  The device
\* answers _handle_error's probes with shot, closeOk, startOk and reboot.
\* raise2: an exception leaves the statements of the give-up branch (lines
\* 196-205) before they take effect; an exception leaving _handle_error
\* would leave the handler the same way.  Either reaches the outer handler.
RunExcept(w, shot, closeOk, startOk, reboot, raise2) ==
    LET he == HandleError(shot, closeOk, startOk, reboot)
        st == IF he.raised THEN statistics ELSE add_error(statistics)
        next == current_server - 1
        input == [shot |-> shot, closeOk |-> closeOk, startOk |-> startOk,
                  reboot |-> reboot]
    IN
    /\ pc[w] = "except"
    /\ IF ~he.raised /\ RecoveryRetry(he.recovered, recovery_attempts[w])
       THEN /\ recovery_attempts' = [recovery_attempts EXCEPT ![w] = @ + 1]
            /\ statistics' = st
            /\ pc' = [pc EXCEPT ![w] = "run_while"]
            /\ ev' = [kind |-> "recovered", w |-> w, input |-> input, he |-> he]
            /\ UNCHANGED <<current_server, current_season>>
       ELSE IF he.raised \/ raise2
       THEN /\ statistics' = st
            /\ pc' = [pc EXCEPT ![w] = "critical"]
            /\ ev' = [kind |-> "escaped", w |-> w, input |-> input, he |-> he]
            /\ UNCHANGED <<current_server, current_season, recovery_attempts>>
       ELSE /\ statistics' = add_failure(st, current_server)
            /\ current_server' = next
            /\ current_season' = get_season_for_server(next)
            /\ recovery_attempts' = [recovery_attempts EXCEPT ![w] = 0]
            /\ pc' = [pc EXCEPT ![w] = "run_while"]
            /\ ev' = [kind |-> "gave_up", w |-> w, input |-> input, he |-> he]
    /\ UNCHANGED <<botFlags, settings, current_step_id, retry_count,
                   step_index, tutorial_success, target_server, nCalls, hist>>
    /\ UNCHANGED libVars

\* _run, lines 210-213: the outer handler.
RunCritical(w) ==
    /\ pc[w] = "critical"
    /\ running' = FALSE
    /\ statistics' = add_error(statistics)
    /\ pc' = [pc EXCEPT ![w] = "done"]
    /\ ev' = [kind |-> "critical", w |-> w]
    /\ UNCHANGED <<paused, stop_event, settings, progress, retry_count,
                   step_index, tutorial_success, recovery_attempts,
                   target_server, nCalls, hist>>
    /\ UNCHANGED libVars

\* ----------------------------------------------------------- specification
Shots == {"ok", "empty", "raise"}
Reboots == {"ok", "fail", "raise"}

GuiStep ==
    \/ \E conn \in BOOLEAN : Start(conn)
    \/ Stop
    \/ Pause
    \/ Resume
    \/ \E start \in Servers, end \in Servers : SettingsChanged(start, end)

\* Handler failures so far, read off the retry budgets they consumed.
RECURSIVE Consumed(_)
Consumed(i) ==
    IF i = 0 THEN 0
    ELSE (DefaultRetryCount - get_param_retry_count(i)) + Consumed(i - 1)

\* A worker whose loop body raises nothing: _complete_tutorial and the
\* handlers swallow every exception, and the statistics calls raise none.
\* Its handlers fail at most MaxFailures times.
WorkerStep(w) ==
    \/ RunWhile(w)
    \/ RunBody(w, FALSE)
    \/ TutWhile(w)
    \/ TutDispatch(w)
    \/ \E ok \in BOOLEAN, fb \in {0} \cup Fallbacks(w) :
          /\ ok \/ Consumed(NSteps) < MaxFailures
          /\ HandlerReturn(w, ok, fb)
    \/ RunAfterTutorial(w)

\* The bot under the GUI thread's calls, with every worker start() spawns.
Next == GuiStep \/ \E w \in Workers : WorkerStep(w)

Spec == Init /\ [][Next]_vars

\* A worker whose loop body may raise, so that the recovery path runs.
WorkerStepRaising(w) ==
    \/ RunWhile(w)
    \/ \E raise \in BOOLEAN : RunBody(w, raise)
    \/ TutWhile(w)
    \/ TutDispatch(w)
    \/ \E ok \in BOOLEAN, fb \in {0} \cup Fallbacks(w) :
          /\ ok \/ Consumed(NSteps) < MaxFailures
          /\ HandlerReturn(w, ok, fb)
    \/ RunAfterTutorial(w)
    \/ \E shot \in Shots, closeOk \in BOOLEAN, startOk \in BOOLEAN,
          reboot \in Reboots, raise2 \in BOOLEAN :
            RunExcept(w, shot, closeOk, startOk, reboot, raise2)
    \/ RunCritical(w)

\* One start() and the worker it spawns, left alone by the GUI thread.
NextWorker ==
    \/ \E conn \in BOOLEAN : nCalls = 0 /\ Start(conn)
    \/ \E w \in Workers : WorkerStepRaising(w)

SpecWorker == Init /\ [][NextWorker]_vars

\* A worker whose handlers fail as often as the retry budgets allow.
WorkerStepRetrying(w) ==
    \/ RunWhile(w)
    \/ RunBody(w, FALSE)
    \/ TutWhile(w)
    \/ TutDispatch(w)
    \/ \E ok \in BOOLEAN, fb \in {0} \cup Fallbacks(w) : HandlerReturn(w, ok, fb)
    \/ RunAfterTutorial(w)

NextRetry ==
    \/ \E conn \in BOOLEAN : nCalls = 0 /\ Start(conn)
    \/ \E w \in Workers : WorkerStepRetrying(w)

SpecRetry == InitWorker /\ [][NextRetry]_vars

\* The same worker, the retry_count parameters the steps were created with
\* being kept aside in arg for the properties to compare with.
InitBudget ==
    \E s \in Servers, e \in Servers, r \in [1..NSteps -> RetryParams] :
        /\ Constructed(s, e, r)
        /\ steps_data = <<>> /\ catalog = <<>> /\ built = <<>>
        /\ adb = <<>> /\ stats = <<>> /\ stat_calls = <<>>
        /\ config_file = <<>>
        /\ arg = r
        /\ result = <<>>

SpecBudget == InitBudget /\ [][NextRetry]_vars

\* The worker thread is scheduled: a worker that can take a step of its own
\* loop, other than waiting for a handler to return, eventually takes it.
WorkerProgress(w) ==
    RunWhile(w) \/ RunBody(w, FALSE) \/ TutWhile(w) \/ RunAfterTutorial(w)

FairSpec == Spec /\ \A w \in Workers : WF_vars(WorkerProgress(w))

\* ---------------------------------------------------------- step catalog
\* The bot object at rest, while one of its components is the subject.
BotIdle == Constructed(MinServer, MinServer, [i \in 1..NSteps |-> Absent])

\* What a catalog entry declares besides its id and description.
EntryShapes ==
    { [action_type |-> "click", x |-> 1073, y |-> 35],
      [action_type |-> "click_image", image_name |-> "open_profile"],
      [action_type |-> "select_server"] }

\* A dict literal of TUTORIAL_STEPS_DATA.
Entry(i, shape) ==
    [k \in DOMAIN shape \cup {"step_id", "description"} |->
        IF k = "step_id" THEN i
        ELSE IF k = "description" THEN "step"
        ELSE shape[k]]

\* dict.pop(key) on a dict that holds the key: the dict afterwards.
Pop(d, key) == [k \in DOMAIN d \ {key} |-> d[k]]

\* TutorialStep.__init__: the keyword arguments become a dict of its own.
TutorialStep(id, text, type, kwargs) ==
    [step_id |-> id, description |-> text, action_type |-> type,
     params |-> kwargs]

\* The body of the loop of create_tutorial_steps for one entry: three pops,
\* each raising KeyError when the key is missing, then the step is built from
\* what is left.  data is the entry afterwards.
CreateStep(d) ==
    IF "step_id" \notin DOMAIN d THEN [raised |-> TRUE, data |-> d]
    ELSE LET d1 == Pop(d, "step_id") IN
    IF "description" \notin DOMAIN d1 THEN [raised |-> TRUE, data |-> d1]
    ELSE LET d2 == Pop(d1, "description") IN
    IF "action_type" \notin DOMAIN d2 THEN [raised |-> TRUE, data |-> d2]
    ELSE LET d3 == Pop(d2, "action_type") IN
    [raised |-> FALSE, data |-> d3,
     step |-> TutorialStep(d.step_id, d.description, d["action_type"], d3)]

\* StepsFactory.create_tutorial_steps from entry i on, steps being the list
\* built so far: the list object after the call, and the list returned or
\* the exception raised.
RECURSIVE create_tutorial_steps(_, _, _)
create_tutorial_steps(data, i, steps) ==
    IF i > Len(data) THEN [raised |-> FALSE, data |-> data, steps |-> steps]
    ELSE LET r == CreateStep(data[i])
             after == [data EXCEPT ![i] = r.data]
         IN  IF r.raised THEN [raised |-> TRUE, data |-> after]
             ELSE create_tutorial_steps(after, i + 1, Append(steps, r.step))

\* The module is imported: the list object is what the file writes.
InitCatalog ==
    /\ BotIdle
    /\ stats = <<>> /\ stat_calls = <<>> /\ config_file = <<>>
    /\ steps_data \in [1..CatalogLen -> EntryShapes]
    /\ catalog = [i \in 1..CatalogLen |-> Entry(i, steps_data[i])]
    /\ built = <<>>
    /\ arg = <<>>
    /\ result = <<>>
    /\ adb = <<>>

\* SeaConquestBot.__init__, line 53: one more bot is constructed.
CreateTutorialSteps ==
    LET r == create_tutorial_steps(catalog, 1, <<>>) IN
    /\ Len(built) < MaxBuilds
    /\ catalog' = r.data
    /\ built' = Append(built, IF r.raised THEN "KeyError" ELSE r.steps)
    /\ UNCHANGED <<botVars, steps_data, arg, result, adb,
                   stats, stat_calls, config_file>>

NextCatalog == CreateTutorialSteps

SpecCatalog == InitCatalog /\ [][NextCatalog]_vars

\* ----------------------------------------------------------- season table
\* steps_data.SEASON_SERVER_RANGES: season -> (first server, last server).
SEASON_SERVER_RANGES ==
    [S1 |-> <<577, 600>>, S2 |-> <<541, 576>>, S3 |-> <<505, 540>>,
     S4 |-> <<481, 504>>, S5 |-> <<433, 480>>, X1 |-> <<409, 432>>,
     X2 |-> <<266, 407>>, X3 |-> <<1, 264>>]

\* BotStatistics._get_season_for_server: the statistics object's own copy of
\* the lookup.
BotStatistics_get_season_for_server(server_number) ==
    IF server_number >= 577 THEN "S1"
    ELSE IF 541 <= server_number /\ server_number <= 576 THEN "S2"
    ELSE IF 505 <= server_number /\ server_number <= 540 THEN "S3"
    ELSE IF 481 <= server_number /\ server_number <= 504 THEN "S4"
    ELSE IF 433 <= server_number /\ server_number <= 480 THEN "S5"
    ELSE IF 409 <= server_number /\ server_number <= 432 THEN "X1"
    ELSE IF 266 <= server_number /\ server_number <= 407 THEN "X2"
    ELSE IF 1 <= server_number /\ server_number <= 264 THEN "X3"
    ELSE "unknown"

\* The server numbers the lookups are asked about: the table's span and one
\* number on either side.
InitSeason ==
    /\ BotIdle
    /\ stats = <<>> /\ stat_calls = <<>> /\ config_file = <<>>
    /\ steps_data = <<>> /\ catalog = <<>> /\ built = <<>>
    /\ arg \in (FirstServer - 1)..(LastServer + 1)
    /\ result = <<>>
    /\ adb = <<>>

\* Both lookups are called with the server number.
SeasonLookup ==
    /\ result = <<>>
    /\ result' = [helpers |-> get_season_for_server(arg),
                  statistics |-> BotStatistics_get_season_for_server(arg)]
    /\ UNCHANGED <<botVars, steps_data, catalog, built, arg, adb,
                   stats, stat_calls, config_file>>

NextSeason == SeasonLookup

SpecSeason == InitSeason /\ [][NextSeason]_vars

\* ------------------------------------------------------- device transport
\* Time is counted in half seconds.  now is time.time(); issued and done are
\* when the last interactive command went to the device and when it came
\* back; gap is the time from the completion of the command before it to its
\* issue (NoCommand: there was none before).
NoCommand == -1
Commands ==
    {"get_screenshot", "click", "swipe", "press_key", "start_app", "close_app"}

\* ADB.__init__: last_action_time = 0, long before the clock's present.
InitTransport ==
    /\ BotIdle
    /\ stats = <<>> /\ stat_calls = <<>> /\ config_file = <<>>
    /\ steps_data = <<>> /\ catalog = <<>> /\ built = <<>>
    /\ arg = <<>> /\ result = <<>>
    /\ adb = [last_action_time |-> 0, now |-> min_action_interval,
              issued |-> NoCommand, done |-> NoCommand, gap |-> NoCommand]

\* ADB.wait_for_interval: the time at which it returns when called at t.
wait_for_interval(t, last) ==
    IF t - last < min_action_interval
    THEN t + (min_action_interval - (t - last))
    ELSE t

\* ADB.get_screenshot / click / swipe / press_key / start_app / close_app:
\* the wait, the device command taking duration, and the timestamp.  ok is
\* the command's success; a screenshot that fails raises before it reaches
\* "self.last_action_time = time.time()", the others write it either way.
TransportCommand(cmd, duration, ok) ==
    LET issue == wait_for_interval(adb.now, adb.last_action_time)
        finish == issue + duration
        raised == cmd = "get_screenshot" /\ ~ok
    IN  /\ finish <= MaxTime
        /\ adb' = [last_action_time |->
                       IF raised THEN adb.last_action_time ELSE finish,
                   now |-> finish,
                   issued |-> issue,
                   done |-> finish,
                   gap |-> IF adb.done = NoCommand THEN NoCommand
                           ELSE issue - adb.done]
        /\ UNCHANGED <<botVars, steps_data, catalog, built, arg, result,
                   stats, stat_calls, config_file>>

\* The caller does something else for a while.
TransportIdle ==
    /\ adb.now < MaxTime
    /\ adb' = [adb EXCEPT !.now = @ + 1]
    /\ UNCHANGED <<botVars, steps_data, catalog, built, arg, result,
                   stats, stat_calls, config_file>>

NextTransport ==
    \/ \E cmd \in Commands, duration \in 0..MaxDuration, ok \in BOOLEAN :
          TransportCommand(cmd, duration, ok)
    \/ TransportIdle

SpecTransport == InitTransport /\ [][NextTransport]_vars

\* ---------------------------------------------------------- complex swipe
\* The function called on its own starts from the bot and the other
\* components at rest.
InitCall ==
    /\ BotIdle
    /\ stats = <<>> /\ stat_calls = <<>> /\ config_file = <<>>
    /\ steps_data = <<>> /\ catalog = <<>> /\ built = <<>>
    /\ adb = <<>>
    /\ result = <<>>

Points == {<<630, 400>>, <<640, 300>>}
Durations == {1000, 1500}
PointLists == UNION {[1..n -> Points] : n \in 0..MaxPoints}

\* "segment_duration = duration_ms // (len(points) - 1)" with the quotient
\* the leg count divided by.
SegmentDurationPerPoint(duration_ms, n) == duration_ms \div n

\* "segment_duration = duration_ms // (len(points) - 1)"
segment_duration(duration_ms, n) == duration_ms \div (n - 1)

\* Emulator.complex_swipe: the result and what it did, in order.  legOk[i] is
\* what adb.swipe returns for leg i.
complex_swipe(points, duration_ms, legOk) ==
    LET n == Len(points) IN
    IF n < 2 THEN [ok |-> FALSE, trace |-> <<>>]
    ELSE [ok |-> \A i \in 1..(n - 1) : legOk[i],
          trace |-> [j \in 1..(2 * (n - 1)) |->
                      IF j % 2 = 1
                      THEN [op |-> "swipe",
                            from |-> points[(j + 1) \div 2],
                            to |-> points[(j + 1) \div 2 + 1],
                            duration_ms |-> segment_duration(duration_ms, n)]
                      ELSE [op |-> "sleep", ms |-> 100]]]

InitSwipe ==
    /\ InitCall
    /\ arg \in [points : PointLists, duration_ms : Durations,
                 legOk : [1..MaxPoints -> BOOLEAN]]

ComplexSwipe ==
    /\ result = <<>>
    /\ result' = complex_swipe(arg.points, arg.duration_ms, arg.legOk)
    /\ UNCHANGED <<botVars, steps_data, catalog, built, arg, adb,
                   stats, stat_calls, config_file>>

NextSwipe == ComplexSwipe

SpecSwipe == InitSwipe /\ [][NextSwipe]_vars

\* ------------------------------------------------------------ statistics
\* An optional value: None is <<>>, a value v is <<v>>.
Some(v) == <<v>>

\* "if self.current_server:" holds for a server that is set and not 0.
Truthy(opt) == opt # <<>> /\ opt[1] # 0

StatDurations == {10, 20}
ProgressServers == Servers \cup {0}

\* BotStatistics.__init__, without the wall-clock stamps.
BotStatistics_init ==
    [success_count |-> 0, failure_count |-> 0, error_count |-> 0,
     completed_servers |-> <<>>, failed_servers |-> <<>>,
     server_history |-> <<>>, total_time |-> 0,
     current_server |-> <<>>, current_season |-> <<>>,
     current_step |-> <<>>]

BotStatistics_add_success(st, server, duration) ==
    [st EXCEPT !.success_count = @ + 1,
               !.completed_servers = Append(@, server),
               !.total_time = @ + duration,
               !.server_history = Append(@,
                   [server |-> server,
                    season |-> Some(BotStatistics_get_season_for_server(server)),
                    result |-> "success",
                    duration |-> duration])]

BotStatistics_add_failure(st, server, reason) ==
    [st EXCEPT !.failure_count = @ + 1,
               !.failed_servers = Append(@, server),
               !.server_history = Append(@,
                   [server |-> server,
                    season |-> Some(BotStatistics_get_season_for_server(server)),
                    result |-> "failure",
                    reason |-> reason])]

\* add_error with the history record appended whether or not a server is
\* current.
BotStatistics_add_error_recording(st, error_message) ==
    [st EXCEPT !.error_count = @ + 1,
               !.server_history = Append(@,
                   [server |-> IF st.current_server = <<>> THEN 0
                               ELSE st.current_server[1],
                    season |-> st.current_season,
                    result |-> "error",
                    error_message |-> error_message])]

BotStatistics_add_error(st, error_message) ==
    IF Truthy(st.current_server)
    THEN [st EXCEPT !.error_count = @ + 1,
                    !.server_history = Append(@,
                        [server |-> st.current_server[1],
                         season |-> st.current_season,
                         result |-> "error",
                         error_message |-> error_message])]
    ELSE [st EXCEPT !.error_count = @ + 1]

\* Each field is set only when its argument is not None.
BotStatistics_set_current_progress(st, server, season, step) ==
    [st EXCEPT !.current_server = IF server # <<>> THEN server ELSE @,
               !.current_season = IF season # <<>> THEN season ELSE @,
               !.current_step = IF step # <<>> THEN step ELSE @]

\* "total_time / success_count" and "(success_count / total_attempts) * 100"
\* are float quotients: a quotient is kept as its numerator and denominator.
get_average_time(st) ==
    IF st.success_count > 0
    THEN Some([num |-> st.total_time, den |-> st.success_count])
    ELSE <<>>

\* get_success_rate with the errors counted among the attempts.
SuccessRateOverAllCalls(st) ==
    LET total_attempts == st.success_count + st.failure_count + st.error_count
    IN  IF total_attempts > 0
        THEN Some([num |-> st.success_count, den |-> total_attempts,
                   times |-> 100])
        ELSE <<>>

get_success_rate(st) ==
    LET total_attempts == st.success_count + st.failure_count
    IN  IF total_attempts > 0
        THEN Some([num |-> st.success_count, den |-> total_attempts,
                   times |-> 100])
        ELSE <<>>

\* One call on the object, as the log of calls keeps it.
StatCall(op, server, duration, step) ==
    [op |-> op, server |-> server, duration |-> duration, step |-> step]

InitStatistics ==
    /\ BotIdle
    /\ steps_data = <<>> /\ catalog = <<>> /\ built = <<>>
    /\ arg = <<>> /\ result = <<>> /\ adb = <<>>
    /\ config_file = <<>>
    /\ stats = BotStatistics_init
    /\ stat_calls = <<>>

statFrame == <<botVars, steps_data, catalog, built, arg, result, adb,
               config_file>>

AddSuccess(server, duration) ==
    /\ Len(stat_calls) < MaxStatCalls
    /\ stats' = BotStatistics_add_success(stats, server, duration)
    /\ stat_calls' = Append(stat_calls,
                            StatCall("add_success", Some(server), duration,
                                     <<>>))
    /\ UNCHANGED statFrame

AddFailure(server) ==
    /\ Len(stat_calls) < MaxStatCalls
    /\ stats' = BotStatistics_add_failure(stats, server, "")
    /\ stat_calls' = Append(stat_calls,
                            StatCall("add_failure", Some(server), 0, <<>>))
    /\ UNCHANGED statFrame

AddError ==
    /\ Len(stat_calls) < MaxStatCalls
    /\ stats' = BotStatistics_add_error(stats, "")
    /\ stat_calls' = Append(stat_calls, StatCall("add_error", <<>>, 0, <<>>))
    /\ UNCHANGED statFrame

\* The bot reports a server with its season (bot.py, line 158) or a step on
\* its own (bot.py, line 241).
SetCurrentProgress(server, step) ==
    LET season == IF server = <<>> THEN <<>>
                  ELSE Some(BotStatistics_get_season_for_server(server[1]))
    IN  /\ Len(stat_calls) < MaxStatCalls
        /\ stats' = BotStatistics_set_current_progress(stats, server, season,
                                                       step)
        /\ stat_calls' = Append(stat_calls,
                                StatCall("set_current_progress", server, 0,
                                         step))
        /\ UNCHANGED statFrame

NextStatistics ==
    \/ \E server \in Servers, duration \in StatDurations :
           AddSuccess(server, duration)
    \/ \E server \in Servers : AddFailure(server)
    \/ AddError
    \/ \E server \in ProgressServers : SetCurrentProgress(Some(server), <<>>)
    \/ \E step \in 1..NSteps : SetCurrentProgress(<<>>, Some(step))

SpecStatistics == InitStatistics /\ [][NextStatistics]_vars

\* -------------------------------------------------------------- settings
\* A Python value carries its type: None, a bool, an int, a float (in tenths)
\* or a str.
PyNone == <<"NoneType">>
PyBool(b) == <<"bool", b>>
PyInt(i) == <<"int", i>>
PyFloat(tenths) == <<"float", tenths>>
PyStr(s) == <<"str", s>>

\* json.dump of one value: null, true, false, a number written without a
\* fraction for an int and with one for a float, or a string.
json_dump(v) ==
    CASE v[1] = "NoneType" -> <<"null">>
      [] v[1] = "bool" -> IF v[2] THEN <<"true">> ELSE <<"false">>
      [] v[1] = "int" -> <<"number", v[2], <<>>>>
      [] v[1] = "float" -> <<"number", v[2] \div 10, <<v[2] % 10>>>>
      [] v[1] = "str" -> <<"string", v[2]>>

\* json.load of one value: a number without a fraction is an int, one with a
\* fraction a float.
json_load(j) ==
    CASE j[1] = "null" -> PyNone
      [] j[1] = "true" -> PyBool(TRUE)
      [] j[1] = "false" -> PyBool(FALSE)
      [] j[1] = "number" -> IF j[3] = <<>> THEN PyInt(j[2])
                            ELSE PyFloat(10 * j[2] + j[3][1])
      [] j[1] = "string" -> PyStr(j[2])

\* The keys to_dict writes.
SettingsFields ==
    {"ldplayer_path", "start_server", "end_server", "click_delay",
     "device_id", "emulator_index", "assets_path", "tessdata_path",
     "dark_theme", "auto_start", "minimize_to_tray", "log_level",
     "log_to_file", "performance_monitoring", "performance_interval"}

\* BotSettings.__init__ before it loads the file.
BotSettings_init(config_path) ==
    [ldplayer_path |-> PyNone,
     start_server |-> PyInt(577),
     end_server |-> PyInt(550),
     click_delay |-> PyFloat(15),
     device_id |-> PyNone,
     emulator_index |-> PyStr("0"),
     assets_path |-> PyStr("assets"),
     tessdata_path |-> PyNone,
     dark_theme |-> PyBool(TRUE),
     auto_start |-> PyBool(FALSE),
     minimize_to_tray |-> PyBool(FALSE),
     log_level |-> PyStr("INFO"),
     log_to_file |-> PyBool(TRUE),
     performance_monitoring |-> PyBool(TRUE),
     performance_interval |-> PyFloat(50),
     config_path |-> PyStr(config_path)]

\* A second value of each field, as the settings panel may set it.
OtherSettings ==
    [ldplayer_path |-> PyStr("C:/LDPlayer"),
     start_server |-> PyInt(600),
     end_server |-> PyInt(1),
     click_delay |-> PyFloat(20),
     device_id |-> PyStr("emulator-5554"),
     emulator_index |-> PyStr("1"),
     assets_path |-> PyStr("other"),
     tessdata_path |-> PyStr("tessdata"),
     dark_theme |-> PyBool(FALSE),
     auto_start |-> PyBool(TRUE),
     minimize_to_tray |-> PyBool(TRUE),
     log_level |-> PyStr("DEBUG"),
     log_to_file |-> PyBool(FALSE),
     performance_monitoring |-> PyBool(FALSE),
     performance_interval |-> PyFloat(25)]

\* to_dict without its last key.
ToDictWithoutInterval(obj) ==
    [k \in SettingsFields \ {"performance_interval"} |-> obj[k]]

to_dict(obj) == [k \in SettingsFields |-> obj[k]]

\* What save_settings writes into the file.
save_settings(obj) ==
    LET settings_dict == to_dict(obj)
    IN  [k \in DOMAIN settings_dict |-> json_dump(settings_dict[k])]

\* A settings object constructed on config_path while the file holds doc
\* (<<>>: there is no file): the defaults, then every key of the file that
\* names an attribute.
load_settings(config_path, doc) ==
    LET self == BotSettings_init(config_path)
    IN  IF doc = <<>> THEN self
        ELSE [k \in DOMAIN self |->
                 IF k \in DOMAIN doc THEN json_load(doc[k]) ELSE self[k]]

\* A settings object with any of its fields changed from the default.
InitSettings ==
    /\ BotIdle
    /\ steps_data = <<>> /\ catalog = <<>> /\ built = <<>>
    /\ adb = <<>> /\ stats = <<>> /\ stat_calls = <<>>
    /\ \E changed \in SUBSET SettingsFields :
           arg = [k \in DOMAIN BotSettings_init("config.json") |->
                     IF k \in changed THEN OtherSettings[k]
                     ELSE BotSettings_init("config.json")[k]]
    /\ config_file = <<>>
    /\ result = <<>>

\* save_settings(): the file is written, or an error of the file system is
\* caught and nothing is.
SaveSettings(ok) ==
    /\ config_file' = IF ok THEN save_settings(arg) ELSE config_file
    /\ UNCHANGED <<botVars, steps_data, catalog, built, arg, result, adb,
                   stats, stat_calls>>

\* BotSettings(config_path): a fresh instance on the same path.
LoadSettings ==
    /\ result' = [settings |-> load_settings(arg.config_path[2], config_file),
                  loaded_from |-> config_file]
    /\ UNCHANGED <<botVars, steps_data, catalog, built, arg, adb, stats,
                   stat_calls, config_file>>

NextSettings ==
    \/ \E ok \in BOOLEAN : SaveSettings(ok)
    \/ LoadSettings

SpecSettings == InitSettings /\ [][NextSettings]_vars

\* --------------------------------------------------- loading a settings file
\* The callable attributes of a settings object.
SettingsMethods ==
    {"_load_settings", "save_settings", "to_dict", "from_dict",
     "reset_to_defaults"}

PyMethod(name) == <<"method", name>>

\* Every attribute hasattr() finds on a fresh object: the fields, config_path
\* and the methods of the class.
BotSettings_attributes(config_path) ==
    [k \in DOMAIN BotSettings_init(config_path) \cup SettingsMethods |->
        IF k \in SettingsMethods THEN PyMethod(k)
        ELSE BotSettings_init(config_path)[k]]

\* "for key, value in settings.items(): if hasattr(self, key):
\*  setattr(self, key, value)", the loop of _load_settings and of from_dict.
from_dict(self, settings_dict) ==
    [k \in DOMAIN self |->
        IF k \in DOMAIN settings_dict THEN settings_dict[k] ELSE self[k]]

\* The keys a configuration file is tried with: two fields, a key the class
\* does not know, the config path and two method names.
FileKeys ==
    {"start_server", "log_level", "unknown_key", "config_path",
     "save_settings", "to_dict"}
FileValues == {PyInt(1), PyStr("x")}
Files == UNION {[keys -> FileValues] : keys \in SUBSET FileKeys}

\* A fresh object and a JSON file of any of the keys.
InitLoad ==
    /\ BotIdle
    /\ steps_data = <<>> /\ catalog = <<>> /\ built = <<>>
    /\ adb = <<>> /\ stats = <<>> /\ stat_calls = <<>>
    /\ arg = BotSettings_attributes("config.json")
    /\ \E file \in Files : config_file = [k \in DOMAIN file |->
                                             json_dump(file[k])]
    /\ result = <<>>

loadFrame == <<botVars, steps_data, catalog, built, arg, adb, stats,
               stat_calls, config_file>>

\* _load_settings(): the file exists and is read.
LoadFile ==
    LET settings_dict == [k \in DOMAIN config_file |->
                             json_load(config_file[k])]
    IN  /\ result' = [via |-> "_load_settings",
                      settings |-> from_dict(arg, settings_dict)]
        /\ UNCHANGED loadFrame

\* from_dict(d) with the dictionary the file holds.
FromDict ==
    LET settings_dict == [k \in DOMAIN config_file |->
                             json_load(config_file[k])]
    IN  /\ result' = [via |-> "from_dict",
                      settings |-> from_dict(arg, settings_dict)]
        /\ UNCHANGED loadFrame

NextLoad == LoadFile \/ FromDict

SpecLoad == InitLoad /\ [][NextLoad]_vars

\* ------------------------------------------------------ reset to defaults
\* The files of the working directory that matter: the object's own
\* configuration file and the one reset_to_defaults names.
ConfigPaths == {"config.json", "_temp_config.json"}
ResetFields == {"start_server", "log_level", "dark_theme"}
ResetFiles ==
    {<<>>} \cup
    {[k \in DOMAIN file |-> json_dump(file[k])] :
        file \in UNION {[keys -> FileValues] :
                           keys \in SUBSET {"start_server", "log_level"}}}

\* BotSettings.reset_to_defaults on object self, with the files as they are:
\* the object afterwards and the files afterwards.
reset_to_defaults(self, files) ==
    LET default_settings ==
            load_settings("_temp_config.json", files["_temp_config.json"])
        defaults == to_dict(default_settings)
    IN  [settings |-> [k \in DOMAIN self |->
                          IF k \in DOMAIN defaults /\ k # "config_path"
                          THEN defaults[k] ELSE self[k]],
         files |-> [files EXCEPT !["_temp_config.json"] = <<>>]]

\* In this component config_file maps each path to what the file holds.
InitReset ==
    /\ BotIdle
    /\ steps_data = <<>> /\ catalog = <<>> /\ built = <<>>
    /\ adb = <<>> /\ stats = <<>> /\ stat_calls = <<>>
    /\ \E path \in ConfigPaths, changed \in SUBSET ResetFields :
           arg = [k \in DOMAIN BotSettings_init(path) |->
                     IF k \in changed THEN OtherSettings[k]
                     ELSE BotSettings_init(path)[k]]
    /\ config_file \in [ConfigPaths -> ResetFiles]
    /\ result = <<>>

ResetToDefaults ==
    LET r == reset_to_defaults(arg, config_file) IN
    /\ result = <<>>
    /\ result' = [settings |-> r.settings, files_before |-> config_file]
    /\ config_file' = r.files
    /\ UNCHANGED <<botVars, steps_data, catalog, built, arg, adb, stats,
                   stat_calls>>

NextReset == ResetToDefaults

SpecReset == InitReset /\ [][NextReset]_vars

\* ------------------------------------------------- transport: connecting
\* Text that is searched or split is a sequence of characters.
ListOfDevicesAttached ==
    <<"L", "i", "s", "t", " ", "o", "f", " ", "d", "e", "v", "i", "c",
    "e", "s", " ", "a", "t", "t", "a", "c", "h", "e", "d">>
Emulator5554 ==
    <<"e", "m", "u", "l", "a", "t", "o", "r", "-", "5", "5", "5", "4">>
Emulator5556 ==
    <<"e", "m", "u", "l", "a", "t", "o", "r", "-", "5", "5", "5", "6">>
Emulator5558 ==
    <<"e", "m", "u", "l", "a", "t", "o", "r", "-", "5", "5", "5", "8">>
Emulator555 ==
    <<"e", "m", "u", "l", "a", "t", "o", "r", "-", "5", "5", "5">>
StateDevice ==
    <<"d", "e", "v", "i", "c", "e">>
StateOffline ==
    <<"o", "f", "f", "l", "i", "n", "e">>

\* The ids the bridge tool lists, the states it lists them in, and the ids
\* the settings may name.
ListedIds == {Emulator5554, Emulator5556}
ListedStates == {StateDevice, StateOffline}
SuppliedIds == ListedIds \cup {Emulator5558, Emulator555}
Listings ==
    {l \in UNION {[1..n -> [id : ListedIds, state : ListedStates]] :
                     n \in 0..MaxDevices} :
        \A i, j \in 1..Len(l) : l[i].id = l[j].id => i = j}

\* The lines of "adb devices" for a listing, after strip().split('\n').
adb_devices(listing) ==
    <<ListOfDevicesAttached>> \o
    [i \in 1..Len(listing) |-> listing[i].id \o <<"\t">> \o listing[i].state]

\* Python's "needle in text" for a text without line breaks.
IsSubstring(needle, text) ==
    \E i \in 0..(Len(text) - Len(needle)) :
        SubSeq(text, i + 1, i + Len(needle)) = needle

\* "needle in devices", devices being the lines joined by line breaks and
\* the needle holding none.
InOutput(needle, lines) == \E i \in 1..Len(lines) : IsSubstring(needle, lines[i])

\* line.split('\t')[0]
RECURSIVE BeforeTab(_)
BeforeTab(line) ==
    IF line = <<>> \/ Head(line) = "\t" THEN <<>>
    ELSE <<Head(line)>> \o BeforeTab(Tail(line))

\* ADB._check_connection: it raises ConnectionError or leaves a device id.
\* device_id is <<>> for None and <<id>> for an id.
check_connection(device_id, success, lines) ==
    IF ~success THEN [raised |-> TRUE, device_id |-> device_id]
    ELSE IF InOutput(ListOfDevicesAttached, lines) /\ Len(lines) > 1
    THEN LET chosen == IF device_id = <<>> THEN Some(BeforeTab(lines[2]))
                       ELSE device_id
         IN  IF ~InOutput(chosen[1], lines)
             THEN [raised |-> TRUE, device_id |-> chosen]
             ELSE [raised |-> FALSE, device_id |-> chosen]
    ELSE [raised |-> TRUE, device_id |-> device_id]

\* ADB(device_id) is about to be constructed; the bridge tool will answer with
\* a listing, or fail.
InitConnect ==
    /\ BotIdle
    /\ steps_data = <<>> /\ catalog = <<>> /\ built = <<>>
    /\ adb = <<>> /\ stats = <<>> /\ stat_calls = <<>> /\ config_file = <<>>
    /\ arg \in [device_id : {<<>>} \cup {Some(id) : id \in SuppliedIds},
                success : BOOLEAN,
                listing : Listings]
    /\ result = <<>>

\* ADB.__init__
Connect ==
    /\ result = <<>>
    /\ result' = check_connection(arg.device_id, arg.success,
                                  IF arg.success THEN adb_devices(arg.listing)
                                  ELSE <<>>)
    /\ UNCHANGED <<botVars, steps_data, catalog, built, arg, adb, stats,
                   stat_calls, config_file>>

NextConnect == Connect

SpecConnect == InitConnect /\ [][NextConnect]_vars

\* ----------------------------------------------------- performance monitor
\* Percentages are kept in tenths of a percent, memory in bytes.
CpuSamples == {95 * 10, 95 * 10 + 1, 96 * 10}
MemorySamples == {90 * 10, 90 * 10 + 1}
DiskSamples == {95 * 10, 95 * 10 + 1}
AvailableSamples ==
    {499 * 1024 * 1024, 500 * 1024 * 1024 - 1, 500 * 1024 * 1024}

\* The metrics an earlier sample left on the object: those of __init__, or
\* those of a loaded machine.
EarlierMetrics ==
    {[cpu_usage |-> 0, memory_usage |-> 0, disk_usage |-> 0],
     [cpu_usage |-> 97 * 10, memory_usage |-> 50 * 10, disk_usage |-> 50 * 10]}

\* update_metrics: the three system metrics are replaced by what psutil
\* reports; an exception inside is logged there and leaves them as they were
\* (here: psutil.cpu_percent() raises, the first call).
update_metrics(metrics, sample, raises) ==
    IF raises THEN metrics
    ELSE [cpu_usage |-> sample.cpu, memory_usage |-> sample.memory,
          disk_usage |-> sample.disk]

\* "if self.cpu_usage > 95"
cpu_critical(cpu_usage) == cpu_usage > 95 * 10

\* "available_memory_mb = available / (1024 * 1024); available_memory_mb < 500"
memory_short(available) == available < 500 * (1024 * 1024)

\* PerformanceMonitor.check_resources.  availableRaises: the call of
\* psutil.virtual_memory() inside check_resources raises.
check_resources(metrics, sample, updateRaises, availableRaises) ==
    LET m == update_metrics(metrics, sample, updateRaises) IN
    IF cpu_critical(m.cpu_usage) THEN [ok |-> FALSE, raised |-> FALSE]
    ELSE IF m.memory_usage > 90 * 10 THEN [ok |-> FALSE, raised |-> FALSE]
    ELSE IF m.disk_usage > 95 * 10 THEN [ok |-> FALSE, raised |-> FALSE]
    ELSE IF availableRaises THEN [ok |-> TRUE, raised |-> TRUE]
    ELSE IF memory_short(sample.available)
         THEN [ok |-> FALSE, raised |-> FALSE]
    ELSE [ok |-> TRUE, raised |-> FALSE]

InitResources ==
    /\ BotIdle
    /\ steps_data = <<>> /\ catalog = <<>> /\ built = <<>>
    /\ adb = <<>> /\ stats = <<>> /\ stat_calls = <<>> /\ config_file = <<>>
    /\ arg \in [metrics : EarlierMetrics,
                sample : [cpu : CpuSamples, memory : MemorySamples,
                          disk : DiskSamples, available : AvailableSamples],
                updateRaises : BOOLEAN,
                availableRaises : BOOLEAN]
    /\ result = <<>>

CheckResources ==
    /\ result = <<>>
    /\ result' = check_resources(arg.metrics, arg.sample, arg.updateRaises,
                                 arg.availableRaises)
    /\ UNCHANGED <<botVars, steps_data, catalog, built, arg, adb, stats,
                   stat_calls, config_file>>

NextResources == CheckResources

SpecResources == InitResources /\ [][NextResources]_vars

\* ----------------------------------------------------- overlap suppression
\* Candidate rectangles (x, y, w, h).
BoxXs == {0, 1, 3}
BoxWidths == {1, 3}
BoxHeights == {1, 2}
Boxes == {<<x, 0, w, h>> : x \in BoxXs, w \in BoxWidths, h \in BoxHeights}
BoxLists == UNION {[1..n -> Boxes] : n \in 0..MaxBoxes}

\* "[x, y, x + w, y + h]"
corners(b) == <<b[1], b[2], b[1] + b[3], b[2] + b[4]>>

\* The result handed back as the corner rows themselves.
CornersUnconverted(c) == c

\* "(x1, y1, x2 - x1, y2 - y1)"
xywh(c) == <<c[1], c[2], c[3] - c[1], c[4] - c[2]>>

\* "area = (x2 - x1 + 1) * (y2 - y1 + 1)"
box_area(c) == (c[3] - c[1] + 1) * (c[4] - c[2] + 1)

Maximum(a, b) == IF a >= b THEN a ELSE b
Minimum(a, b) == IF a <= b THEN a ELSE b

\* "w * h" of the rectangle two corner rows share.
intersection(c, d) ==
    LET w == Maximum(0, Minimum(c[3], d[3]) - Maximum(c[1], d[1]) + 1)
        h == Maximum(0, Minimum(c[4], d[4]) - Maximum(c[2], d[2]) + 1)
    IN  w * h

\* "overlap > overlap_thresh" for overlap = (w * h) / area[j] and 0.3.
overlaps(c, d) == 10 * intersection(c, d) > 3 * box_area(d)

\* What np.argsort(area)[::-1] may be: the indices by falling area, boxes of
\* equal area in any order.
Orders(boxes) ==
    {idxs \in [1..Len(boxes) -> 1..Len(boxes)] :
        /\ \A i, j \in 1..Len(boxes) : idxs[i] = idxs[j] => i = j
        /\ \A i \in 1..(Len(boxes) - 1) :
               box_area(corners(boxes[idxs[i]]))
                   >= box_area(corners(boxes[idxs[i + 1]]))}

\* The while loop: the last index is picked, and every other index whose box
\* it overlaps by more than the threshold is deleted.
RECURSIVE suppress(_, _, _)
suppress(rows, idxs, pick) ==
    IF idxs = <<>> THEN pick
    ELSE LET last == Len(idxs)
             i == idxs[last]
             kept == SelectSeq(SubSeq(idxs, 1, last - 1),
                               LAMBDA j : ~overlaps(rows[i], rows[j]))
         IN  suppress(rows, kept, Append(pick, i))

\* ImageRecognition._non_max_suppression with the order argsort produced.
non_max_suppression(boxes, idxs) ==
    IF Len(boxes) = 0 THEN <<>>
    ELSE LET rows == [k \in 1..Len(boxes) |-> corners(boxes[k])]
             pick == suppress(rows, idxs, <<>>)
         IN  [k \in 1..Len(pick) |-> xywh(rows[pick[k]])]

InitSuppression ==
    /\ BotIdle
    /\ steps_data = <<>> /\ catalog = <<>> /\ built = <<>>
    /\ adb = <<>> /\ stats = <<>> /\ stat_calls = <<>> /\ config_file = <<>>
    /\ \E boxes \in BoxLists : \E idxs \in Orders(boxes) :
           arg = [boxes |-> boxes, idxs |-> idxs]
    /\ result = <<>>

NonMaxSuppression ==
    /\ result = <<>>
    /\ result' = [boxes |-> non_max_suppression(arg.boxes, arg.idxs)]
    /\ UNCHANGED <<botVars, steps_data, catalog, built, arg, adb, stats,
                   stat_calls, config_file>>

NextSuppression == NonMaxSuppression

SpecSuppression == InitSuppression /\ [][NextSuppression]_vars

\* ------------------------------------------------------ the step sequence
\* _complete_tutorial on its own: a list of steps known by their ids, and
\* handlers that succeed or fail and may name the step to go to.
StepIdLists == [1..TutorialLen -> 1..TutorialLen]
NextStepIds == {<<>>} \cup {Some(id) : id \in 1..(TutorialLen + 1)}

Positions(ids, id) == {i \in 1..Len(ids) : ids[i] = id}

\* The for loop of lines 253-256 without its break: the last match stays.
FindStepWithoutBreak(ids, next_step, current_step_index) ==
    IF Positions(ids, next_step) = {} THEN current_step_index
    ELSE (CHOOSE i \in Positions(ids, next_step) :
              \A j \in Positions(ids, next_step) : j <= i) - 1

\* "for i, s in enumerate(self.tutorial_steps): if s.step_id == next_step:
\*  current_step_index = i; break".  Indices count from 0.
find_step(ids, next_step, current_step_index) ==
    IF Positions(ids, next_step) = {} THEN current_step_index
    ELSE (CHOOSE i \in Positions(ids, next_step) :
              \A j \in Positions(ids, next_step) : i <= j) - 1

InitTutorial ==
    /\ BotIdle
    /\ steps_data = <<>> /\ catalog = <<>> /\ built = <<>>
    /\ adb = <<>> /\ stats = <<>> /\ stat_calls = <<>> /\ config_file = <<>>
    /\ arg \in StepIdLists
    /\ result = [pc |-> "head", current_step_index |-> 0, last |-> <<>>,
                 retry_count |-> [i \in 1..TutorialLen |-> Absent],
                 dispatches |-> 0, returned |-> <<>>]

tutorialFrame == <<botVars, steps_data, catalog, built, arg, adb, stats,
                   stat_calls, config_file>>

\* Lines 225-244: the loop condition, the stop check, and the call of the
\* handler of the step at current_step_index.
TutorialHead(stop) ==
    /\ result.pc = "head"
    /\ result.dispatches < MaxDispatches
    /\ result' =
          IF result.current_step_index >= Len(arg)
          THEN [result EXCEPT !.pc = "returned", !.returned = Some(TRUE)]
          ELSE IF stop
          THEN [result EXCEPT !.pc = "returned", !.returned = Some(FALSE)]
          ELSE [result EXCEPT !.pc = "handler", !.dispatches = @ + 1]
    /\ UNCHANGED tutorialFrame

\* Lines 244-273: the handler returns (success, next_step).
TutorialReturn(success, next_step) ==
    LET i == result.current_step_index + 1
        rc == IF result.retry_count[i] = Absent THEN DefaultRetryCount
              ELSE result.retry_count[i][1]
        last == [index |-> result.current_step_index, success |-> success,
                 next_step |-> next_step]
    IN
    /\ result.pc = "handler"
    /\ result' =
          IF success
          THEN [result EXCEPT
                   !.pc = "head",
                   !.last = last,
                   !.current_step_index =
                       IF next_step # <<>>
                       THEN find_step(arg, next_step[1], @)
                       ELSE @ + 1]
          ELSE IF RetryAfterFailure(rc)
          THEN [result EXCEPT !.pc = "head", !.last = last,
                              !.retry_count[i] = <<rc - 1>>]
          ELSE [result EXCEPT !.pc = "returned", !.last = last,
                              !.returned = Some(FALSE)]
    /\ UNCHANGED tutorialFrame

NextTutorial ==
    \/ \E stop \in BOOLEAN : TutorialHead(stop)
    \/ \E success \in BOOLEAN, next_step \in NextStepIds :
           TutorialReturn(success, next_step)

SpecTutorial == InitTutorial /\ [][NextTutorial]_vars

\* ------------------------------------------------------- one step executed
\* The action types for which the bot has an _execute_<type> attribute: the
\* six methods of the class and the nine handlers add_extended_actions binds.
HandlerTypes ==
    {"click", "click_image", "swipe", "wait", "start_app", "close_app",
     "delayed_click", "repeat_click_until_image", "find_and_click_or_repeat",
     "find_and_click_multiple", "wait_for_image", "wait_for_image_with_esc",
     "complex_swipe", "select_season", "select_server"}

\* The action types a step is tried with: those, one no attribute answers to,
\* and "step", for which the attribute found is _execute_step itself.
ActionTypes == HandlerTypes \cup {"teleport", "step"}

\* What a handler does when called: the device commands it issues, and then
\* either its (success, next_step) or an exception.
HandlerRuns ==
    [commands : {<<>>, <<"click">>},
     raises : BOOLEAN,
     success : BOOLEAN,
     next_step : {<<>>, Some(11)}]

\* _execute_step without its try/except.
ExecuteStepUnguarded(type, run) ==
    IF type \in HandlerTypes
    THEN IF run.raises
         THEN [success |-> FALSE, next_step |-> <<>>, raised |-> TRUE,
               commands |-> run.commands]
         ELSE [success |-> run.success, next_step |-> run.next_step,
               raised |-> FALSE, commands |-> run.commands]
    ELSE [success |-> FALSE, next_step |-> <<>>, raised |-> FALSE,
          commands |-> <<>>]

\* SeaConquestBot._execute_step.  For "step" the method calls itself until
\* the interpreter raises RecursionError, which the except clause catches.
execute_step(type, run) ==
    IF type \in HandlerTypes
    THEN IF run.raises
         THEN [success |-> FALSE, next_step |-> <<>>, raised |-> FALSE,
               commands |-> run.commands]
         ELSE [success |-> run.success, next_step |-> run.next_step,
               raised |-> FALSE, commands |-> run.commands]
    ELSE [success |-> FALSE, next_step |-> <<>>, raised |-> FALSE,
          commands |-> <<>>]

InitExecute ==
    /\ BotIdle
    /\ steps_data = <<>> /\ catalog = <<>> /\ built = <<>>
    /\ adb = <<>> /\ stats = <<>> /\ stat_calls = <<>> /\ config_file = <<>>
    /\ arg \in [type : ActionTypes, run : HandlerRuns]
    /\ result = <<>>

ExecuteStep ==
    /\ result = <<>>
    /\ result' = execute_step(arg.type, arg.run)
    /\ UNCHANGED <<botVars, steps_data, catalog, built, arg, adb, stats,
                   stat_calls, config_file>>

NextExecute == ExecuteStep

SpecExecute == InitExecute /\ [][NextExecute]_vars

\* ---------------------------------------------------------- select_server
\* The server numbers find_server_numbers may recognise on the screen after
\* the list is scrolled back.
RecognisableServers == (MinServer - 2)..(MinServer + ServerSpan + 1)

\* "max_scroll_attempts = 20"
max_scroll_attempts == 20

\* The attempt at which find_specific_server sees the target: the first, the
\* last, or none (0).
FoundAt == {0, 1, max_scroll_attempts}

\* "server_numbers.sort(key=lambda x: x[0], reverse=True)"
RECURSIVE SortedDescending(_)
SortedDescending(numbers) ==
    IF numbers = {} THEN <<>>
    ELSE LET top == CHOOSE n \in numbers : \A m \in numbers : m <= n
         IN  <<top>> \o SortedDescending(numbers \ {top})

\* "for server_number, coords in server_numbers:
\*  if server_number < target_server: ..."
first_below(server_numbers, target) ==
    LET hits == SelectSeq(server_numbers, LAMBDA n : n < target)
    IN  IF hits = <<>> THEN <<>> ELSE Some(hits[1])

\* The select_server handler for a bot whose current_server is server.
\* foundAt: the scroll attempt that shows the target (0: none of them);
\* numbers: what is recognised after scrolling back; clickOk: what
\* emulator.click returns; raises: a device or recognition call raises, which
\* the except clause of line 571 turns into (False, None).  The result holds the handler's return value, the
\* bot's current_server afterwards, the server clicked and the swipes made.
select_server(server, foundAt, numbers, clickOk, raises) ==
    LET target == server
        chosen == first_below(SortedDescending(numbers), target)
    IN  IF raises
        THEN [success |-> FALSE, next_step |-> <<>>,
              current_server |-> server, clicked |-> <<>>, swipes |-> 0]
        ELSE IF foundAt # 0
        THEN [success |-> clickOk, next_step |-> <<>>,
              current_server |-> server, clicked |-> Some(target),
              swipes |-> foundAt - 1]
        ELSE IF chosen # <<>>
        THEN [success |-> clickOk, next_step |-> <<>>,
              current_server |-> chosen[1], clicked |-> chosen,
              swipes |-> max_scroll_attempts + 5]
        ELSE [success |-> FALSE, next_step |-> <<>>,
              current_server |-> server, clicked |-> <<>>,
              swipes |-> max_scroll_attempts + 5]

InitSelect ==
    /\ BotIdle
    /\ steps_data = <<>> /\ catalog = <<>> /\ built = <<>>
    /\ adb = <<>> /\ stats = <<>> /\ stat_calls = <<>> /\ config_file = <<>>
    /\ arg \in [current_server : Servers,
                foundAt : FoundAt,
                numbers : SUBSET RecognisableServers,
                clickOk : BOOLEAN,
                raises : BOOLEAN]
    /\ result = <<>>

SelectServer ==
    /\ result = <<>>
    /\ result' = select_server(arg.current_server, arg.foundAt, arg.numbers,
                               arg.clickOk, arg.raises)
    /\ UNCHANGED <<botVars, steps_data, catalog, built, arg, adb, stats,
                   stat_calls, config_file>>

NextSelect == SelectServer

SpecSelect == InitSelect /\ [][NextSelect]_vars

\* ------------------------------------------------ repeat_click_until_image
\* What one pass of the loop body meets: get_screenshot raises (the device
\* does not answer), find_template finds the target image, or it does not.
Screens == {"raises", "found", "missing"}

\* The handler before its first loop test: "attempt = 0".
repeat_click_start ==
    [pc |-> "loop", attempt |-> 0, checks |-> 0, misses |-> 0, clicks |-> 0,
     image_clicks |-> 0, returned |-> <<>>]

\* One test of "while max_attempts == 0 or attempt < max_attempts" and, when
\* it passes, one pass of the body (lines 123-153); when it does not, lines
\* 155-156.  An exception leaves through the except clause of line 157.
repeat_click_until_image(frame, max_attempts, click_on_image, screen) ==
    IF ~(max_attempts = 0 \/ frame.attempt < max_attempts)
    THEN [frame EXCEPT !.pc = "returned", !.returned = Some(FALSE)]
    ELSE IF screen = "raises"
    THEN [frame EXCEPT !.pc = "returned", !.returned = Some(FALSE)]
    ELSE IF screen = "found"
    THEN [frame EXCEPT !.pc = "returned", !.returned = Some(TRUE),
                       !.checks = @ + 1,
                       !.image_clicks = IF click_on_image THEN @ + 1 ELSE @]
    ELSE [frame EXCEPT !.checks = @ + 1, !.misses = @ + 1,
                       !.clicks = @ + 1, !.attempt = @ + 1]

InitRepeat ==
    /\ BotIdle
    /\ steps_data = <<>> /\ catalog = <<>> /\ built = <<>>
    /\ adb = <<>> /\ stats = <<>> /\ stat_calls = <<>> /\ config_file = <<>>
    /\ arg \in [max_attempts : 0..MaxAttempts, click_on_image : BOOLEAN]
    /\ result = repeat_click_start

RepeatClickUntilImage(screen) ==
    /\ result.pc = "loop"
    /\ result.attempt < MaxPolls
    /\ result' = repeat_click_until_image(result, arg.max_attempts,
                                          arg.click_on_image, screen)
    /\ UNCHANGED <<botVars, steps_data, catalog, built, arg, adb, stats,
                   stat_calls, config_file>>

NextRepeat == \E screen \in Screens : RepeatClickUntilImage(screen)

SpecRepeat == InitRepeat /\ [][NextRepeat]_vars

\* ----------------------------------- wait_for_image, wait_for_image_with_esc
\* Seconds one screenshot with its template search may take, and seconds a
\* time.sleep may overrun.
Delays == 0..1

\* "if current_time - last_esc_time >= esc_interval" without the test.
EscDueAtEveryPoll(current_time, last_esc_time, esc_interval) == TRUE

\* "if current_time - last_esc_time >= esc_interval"
esc_due(current_time, last_esc_time, esc_interval) ==
    current_time - last_esc_time >= esc_interval

\* Both handlers before the first loop test: "start_time = time.time()",
\* "last_esc_time = 0".  The frame also keeps the clock, the clock readings
\* at which polls began and at which BACK was pressed, and what was returned.
wait_start ==
    [pc |-> "loop", now |-> Epoch, start_time |-> Epoch, last_esc_time |-> 0,
     polls |-> <<>>, esc |-> <<>>, found |-> FALSE, returned |-> <<>>,
     raised |-> FALSE]

\* One test of "while time.time() - start_time < timeout" and, when it
\* passes, one pass of the body; with_esc tells wait_for_image_with_esc from
\* wait_for_image.  took: the seconds the screenshot and search take; late:
\* the seconds the sleep overruns.
wait_for_image(frame, with_esc, timeout, check_interval, esc_interval, screen, took, late) ==
    LET current_time == frame.now + took
        polled == [frame EXCEPT !.polls = Append(@, frame.now),
                                !.now = current_time]
        press == with_esc /\ esc_due(current_time, frame.last_esc_time,
                                     esc_interval)
    IN  IF ~(frame.now - frame.start_time < timeout)
        THEN [frame EXCEPT !.pc = "returned", !.returned = Some(FALSE)]
        ELSE IF screen = "raises"
        THEN [polled EXCEPT !.pc = "returned", !.returned = Some(FALSE)]
        ELSE IF screen = "found"
        THEN [polled EXCEPT !.pc = "returned", !.returned = Some(TRUE),
                            !.found = TRUE]
        ELSE [polled EXCEPT
                 !.esc = IF press
                         THEN Append(@, [at |-> current_time,
                                         poll |-> Len(polled.polls)])
                         ELSE @,
                 !.last_esc_time = IF press THEN current_time ELSE @,
                 !.now = current_time + check_interval + late]

InitWait ==
    /\ BotIdle
    /\ steps_data = <<>> /\ catalog = <<>> /\ built = <<>>
    /\ adb = <<>> /\ stats = <<>> /\ stat_calls = <<>> /\ config_file = <<>>
    /\ arg \in [with_esc : BOOLEAN,
                timeout : 0..MaxTimeout,
                check_interval : 1..2,
                esc_interval : 1..MaxEscInterval]
    /\ result = wait_start

WaitForImage(screen, took, late) ==
    /\ result.pc = "loop"
    /\ result' = wait_for_image(result, arg.with_esc, arg.timeout,
                                arg.check_interval, arg.esc_interval,
                                screen, took, late)
    /\ UNCHANGED <<botVars, steps_data, catalog, built, arg, adb, stats,
                   stat_calls, config_file>>

NextWait ==
    \E screen \in Screens, took \in Delays, late \in Delays :
        WaitForImage(screen, took, late)

SpecWait == InitWait /\ [][NextWait]_vars

\* ------------------------------------------------------------- find_season
\* Texts are sequences of characters.  A Latin letter or a digit is itself;
\* a Cyrillic letter is written by its name: "CYR_ES" and "cyr_es" are the
\* capital and the small letter that looks like Latin C, "cyr_ie" like e,
\* "cyr_ze" like 3, "cyr_o" like o, "cyr_en" like H, "CYR_HA" and "cyr_ha"
\* like X.
SeasonWord == <<"CYR_ES", "cyr_ie", "cyr_ze", "cyr_o", "cyr_en">>

\* What the recogniser may give for the word: the word, the word with a Latin
\* e, the word with Latin e and digit 3 after a Latin c, and a reading that
\* keeps none of the three tolerated beginnings.
RecognisedWords ==
    {SeasonWord,
     <<"CYR_ES", "e", "cyr_ze", "cyr_o", "cyr_en">>,
     <<"c", "e", "3", "cyr_o", "cyr_en">>,
     <<"C", "e", "3", "o", "H">>,
     <<"G", "e", "3", "o", "H">>}

RecognisedSuffixes ==
    {<<l, d>> : l \in {"S", "s", "5", "X", "x", "CYR_HA", "cyr_ha"},
                d \in {"1", "2"}}

RecognisedTexts ==
    {w \o <<" ">> \o s : w \in RecognisedWords, s \in RecognisedSuffixes}
    \cup {w \o s : w \in {SeasonWord}, s \in RecognisedSuffixes}

\* The names get_season_for_server gives.
TargetSeasons ==
    {SeasonWord \o <<" ", l, d>> : l \in {"S", "X"}, d \in {"1", "2"}}

\* str.lower() on one character.
lower_char(ch) ==
    CASE ch = "CYR_ES" -> "cyr_es"
      [] ch = "CYR_HA" -> "cyr_ha"
      [] ch = "S" -> "s"
      [] ch = "X" -> "x"
      [] ch = "C" -> "c"
      [] ch = "G" -> "g"
      [] ch = "H" -> "h"
      [] OTHER -> ch

\* str.lower()
lower(text) == [i \in 1..Len(text) |-> lower_char(text[i])]

\* str.strip()
RECURSIVE strip(_)
strip(text) ==
    IF text = <<>> THEN <<>>
    ELSE IF Head(text) = " " THEN strip(Tail(text))
    ELSE IF text[Len(text)] = " " THEN strip(SubSeq(text, 1, Len(text) - 1))
    ELSE text

\* str.split(): the maximal runs of characters that are not blanks.
RECURSIVE split(_)
split(text) ==
    IF text = <<>> THEN <<>>
    ELSE IF Head(text) = " " THEN split(Tail(text))
    ELSE LET blanks == {i \in 1..Len(text) : text[i] = " "}
             stop == IF blanks = {} THEN Len(text) + 1
                     ELSE CHOOSE i \in blanks : \A j \in blanks : i <= j
         IN  <<SubSeq(text, 1, stop - 1)>>
             \o split(SubSeq(text, stop, Len(text)))

\* str.startswith() for a one-character prefix.
startswith(text, ch) == text # <<>> /\ text[1] = ch

\* re.search(r'[<letters>][<digits>]', text)
search_pair(letters, digits, text) ==
    \E i \in 1..(Len(text) - 1) :
        text[i] \in letters /\ text[i + 1] \in digits

\* The characters of a text, as the members of a bracket expression.
Chars(text) == {text[i] : i \in 1..Len(text)}

\* TextRecognition._fuzzy_season_match(text, target)
fuzzy_season_match(text, target) ==
    LET target_parts == split(target) IN
    IF Len(target_parts) # 2 THEN FALSE
    ELSE LET season_number == target_parts[2]
             season_num == Tail(season_number)
         IN  IF /\ ~IsSubstring(<<"cyr_es", "cyr_ie", "cyr_ze">>, text)
                /\ ~IsSubstring(<<"c", "e", "3">>, text)
                /\ ~IsSubstring(<<"cyr_es", "e", "cyr_ze">>, text)
             THEN FALSE
             ELSE IF startswith(season_number, "S")
             THEN search_pair({"S", "s", "5"}, Chars(season_num), text)
             ELSE IF startswith(season_number, "X")
             THEN search_pair({"X", "x", "CYR_HA", "cyr_ha"},
                              Chars(season_num), text)
             ELSE FALSE

\* The test find_season makes on the text of one region (lines 203-207).
find_season(text, target_season) ==
    LET normalized_text == lower(strip(text))
        normalized_target == lower(strip(target_season))
    IN  [exact |-> IsSubstring(normalized_target, normalized_text),
         fuzzy |-> fuzzy_season_match(normalized_text, normalized_target),
         accepted |-> \/ IsSubstring(normalized_target, normalized_text)
                      \/ fuzzy_season_match(normalized_text,
                                            normalized_target)]

InitFindSeason ==
    /\ BotIdle
    /\ steps_data = <<>> /\ catalog = <<>> /\ built = <<>>
    /\ adb = <<>> /\ stats = <<>> /\ stat_calls = <<>> /\ config_file = <<>>
    /\ arg \in [text : RecognisedTexts, target_season : TargetSeasons]
    /\ result = <<>>

FindSeason ==
    /\ result = <<>>
    /\ result' = find_season(arg.text, arg.target_season)
    /\ UNCHANGED <<botVars, steps_data, catalog, built, arg, adb, stats,
                   stat_calls, config_file>>

NextFindSeason == FindSeason

SpecFindSeason == InitFindSeason /\ [][NextFindSeason]_vars

\* ---------------------------------------------------- the statistics panel
\* History entries of a snapshot: the server and the second at which the
\* statistics object stamped the entry ('%Y-%m-%d %H:%M:%S' of that moment).
HistoryEntries == [server : Servers, timestamp : 0..1]

\* The snapshots pushed: histories of distinct entries.
Histories ==
    {h \in UNION {[1..n -> HistoryEntries] : n \in 0..MaxHistory} :
        \A i, j \in 1..Len(h) : h[i] = h[j] => i = j}

\* "for row in range(rowCount()): if item(row, 0).text() == str(server_number)
\*  and item(row, 4).text() == timestamp: found = True"
row_found(rows, entry) ==
    \E r \in 1..Len(rows) :
        rows[r].server = entry.server /\ rows[r].time = entry.timestamp

\* StatisticsTab.add_server_result: the new row's date column is the clock
\* at the moment the row is added.
add_server_result(rows, server, current_time) ==
    Append(rows, [server |-> server, time |-> current_time])

\* The loop of lines 323-342 over the entries from position i on.
RECURSIVE merge_history(_, _, _, _)
merge_history(rows, server_history, i, current_time) ==
    IF i > Len(server_history) THEN rows
    ELSE merge_history(
             IF row_found(rows, server_history[i]) THEN rows
             ELSE add_server_result(rows, server_history[i].server,
                                    current_time),
             server_history, i + 1, current_time)

\* StatisticsTab.set_statistics: the rows of the detail table afterwards.
set_statistics(rows, server_history, current_time) ==
    IF server_history = <<>> THEN <<>>
    ELSE merge_history(rows, server_history, 1, current_time)

InitPanel ==
    /\ BotIdle
    /\ steps_data = <<>> /\ catalog = <<>> /\ built = <<>>
    /\ adb = <<>> /\ stats = <<>> /\ stat_calls = <<>> /\ config_file = <<>>
    /\ arg \in Histories
    /\ result = [now |-> 1, rows |-> <<>>, pushes |-> 0]

panelFrame == <<botVars, steps_data, catalog, built, arg, adb, stats,
                stat_calls, config_file>>

\* A second passes between two timer ticks.
Elapse ==
    /\ result.now < MaxClock
    /\ result' = [result EXCEPT !.now = @ + 1]
    /\ UNCHANGED panelFrame

\* MainWindow._update_runtime pushes the snapshot.
SetStatistics ==
    /\ result.pushes < MaxPushes
    /\ result' = [result EXCEPT
                     !.rows = set_statistics(@, arg, result.now),
                     !.pushes = @ + 1]
    /\ UNCHANGED panelFrame

NextPanel == Elapse \/ SetStatistics

SpecPanel == InitPanel /\ [][NextPanel]_vars

\* ---------------------------------------------------------- the main window
\* Configuration files the program may be started among, and what --config
\* may name.
DefaultConfigPath == <<"config/config.json">>
ConstructorDefaultPath == <<"config.json">>
WindowPaths == {DefaultConfigPath, ConstructorDefaultPath, <<"custom.json">>}
ConfigArguments == {<<>>, Some(<<"custom.json">>), Some(DefaultConfigPath)}

\* A file is absent (<<>>) or holds a start_server and an end_server.
WindowFiles ==
    [WindowPaths ->
        {<<>>} \cup {Some([start_server |-> s, end_server |-> MinServer]) :
                        s \in Servers}]

\* "config_path = args.config if args.config else 'config/config.json'"
resolve_config_path(config) ==
    IF config # <<>> THEN config[1] ELSE DefaultConfigPath

\* BotSettings(config_path) as far as the window uses it: the defaults of
\* lines 21-24, overwritten by the file if there is one.
BotSettings(config_path, files) ==
    IF files[config_path] = <<>>
    THEN [config_path |-> config_path, start_server |-> 577,
          end_server |-> 550, device_id |-> <<>>]
    ELSE [config_path |-> config_path,
          start_server |-> files[config_path][1].start_server,
          end_server |-> files[config_path][1].end_server,
          device_id |-> <<>>]

\* MainWindow.__init__: "self.settings = BotSettings()".
MainWindow_init(files) ==
    [settings |-> BotSettings(ConstructorDefaultPath, files),
     bot |-> <<>>, is_bot_running |-> FALSE]

\* SeaConquestBot(settings) as BotFactory.create_bot builds it.
SeaConquestBot(bot_settings) ==
    [settings |-> bot_settings, running |-> FALSE,
     current_server |-> bot_settings.start_server]

\* SeaConquestBot.start() on the window's bot.
bot_start(bot, conn) ==
    IF bot.running \/ ~conn THEN bot ELSE [bot EXCEPT !.running = TRUE]

\* MainWindow._start_bot.  created: BotFactory.create_bot gives a bot;
\* conn: what the bot's connectivity check answers.
start_bot(window, created, conn) ==
    IF window.is_bot_running THEN window
    ELSE IF window.bot = <<>> /\ ~created THEN window
    ELSE LET bot == IF window.bot = <<>>
                    THEN SeaConquestBot(window.settings)
                    ELSE window.bot[1]
         IN  [window EXCEPT !.bot = Some(bot_start(bot, conn)),
                            !.is_bot_running = TRUE]

\* MainWindow._stop_bot with SeaConquestBot.stop().
stop_bot(window) ==
    IF ~window.is_bot_running \/ window.bot = <<>> THEN window
    ELSE [window EXCEPT !.bot = Some([window.bot[1] EXCEPT !.running = FALSE]),
                        !.is_bot_running = FALSE]

InitWindow ==
    /\ BotIdle
    /\ steps_data = <<>> /\ catalog = <<>> /\ built = <<>>
    /\ adb = <<>> /\ stats = <<>> /\ stat_calls = <<>>
    /\ config_file \in WindowFiles
    /\ arg \in [config : ConfigArguments, auto_start : BOOLEAN]
    /\ result = <<>>

windowFrame == <<botVars, steps_data, catalog, built, arg, adb, stats,
                 stat_calls, config_file>>

\* main(): the settings are loaded, the window is built and, with
\* --auto-start or auto_start in the file, start_bot is called.
Main(created, conn) ==
    /\ result = <<>>
    /\ LET loaded == BotSettings(resolve_config_path(arg.config), config_file)
           window == MainWindow_init(config_file)
       IN  result' = [settings |-> loaded,
                      window |-> IF arg.auto_start
                                 THEN start_bot(window, created, conn)
                                 ELSE window,
                      last |-> IF arg.auto_start THEN "start" ELSE "main"]
    /\ UNCHANGED windowFrame

\* The start button.
WindowStartBot(created, conn) ==
    /\ result # <<>>
    /\ result' = [result EXCEPT !.window = start_bot(@, created, conn),
                                !.last = "start"]
    /\ UNCHANGED windowFrame

\* The stop button.
WindowStopBot ==
    /\ result # <<>>
    /\ result' = [result EXCEPT !.window = stop_bot(@), !.last = "stop"]
    /\ UNCHANGED windowFrame

NextWindow ==
    \/ \E created \in BOOLEAN, conn \in BOOLEAN : Main(created, conn)
    \/ \E created \in BOOLEAN, conn \in BOOLEAN : WindowStartBot(created, conn)
    \/ WindowStopBot

SpecWindow == InitWindow /\ [][NextWindow]_vars

\* ------------------------------------------ the shipped catalog, one pass
\* TUTORIAL_STEPS_DATA as far as _complete_tutorial depends on it, cut to
\* TutorialLen steps: the ids count up from 1, and one step, a
\* find_and_click_multiple, names the id after its own as
\* next_step_on_priority (step 10 names 11).
shipped_ids == [i \in 1..TutorialLen |-> i]
priority_position == TutorialLen - 1

\* The jump naming the step's own id.
JumpToOwnId(ids) == ids[priority_position]

\* "next_step_on_priority": 11, in the dict of step 10.
next_step_on_priority(ids) == ids[priority_position] + 1

\* What the handler of the step at position i may return: failure, success,
\* and for the find_and_click_multiple step success with the id it names.
HandlerResults(ids, i) ==
    {[success |-> FALSE, next_step |-> <<>>],
     [success |-> TRUE, next_step |-> <<>>]}
    \cup (IF i = priority_position
          THEN {[success |-> TRUE,
                 next_step |-> Some(next_step_on_priority(ids))]}
          ELSE {})

\* A later pass finds the budgets as the earlier passes left them.
InitShipped ==
    /\ BotIdle
    /\ steps_data = <<>> /\ catalog = <<>> /\ built = <<>>
    /\ adb = <<>> /\ stats = <<>> /\ stat_calls = <<>> /\ config_file = <<>>
    /\ arg = shipped_ids
    /\ \E r \in [1..TutorialLen -> RetryParams] :
          result = [pc |-> "head", current_step_index |-> 0,
                    retry_count |-> r, returned |-> <<>>]

shippedFrame == <<botVars, steps_data, catalog, built, arg, adb, stats,
                  stat_calls, config_file>>

\* Lines 225-244 when the bot is not paused: the loop condition, the stop
\* check and the call of the handler.  A pass of the loop made while paused
\* (lines 232-234) changes nothing.
ShippedHead(stop) ==
    /\ result.pc = "head"
    /\ result' =
          IF result.current_step_index >= Len(arg)
          THEN [result EXCEPT !.pc = "returned", !.returned = Some(TRUE)]
          ELSE IF stop
          THEN [result EXCEPT !.pc = "returned", !.returned = Some(FALSE)]
          ELSE [result EXCEPT !.pc = "handler"]
    /\ UNCHANGED shippedFrame

\* Lines 244-273: the handler returns.
ShippedReturn(outcome) ==
    LET i == result.current_step_index + 1
        rc == IF result.retry_count[i] = Absent THEN DefaultRetryCount
              ELSE result.retry_count[i][1]
    IN
    /\ result.pc = "handler"
    /\ outcome \in HandlerResults(arg, i)
    /\ result' =
          IF outcome.success
          THEN [result EXCEPT
                   !.pc = "head",
                   !.current_step_index =
                       IF outcome.next_step # <<>>
                       THEN find_step(arg, outcome.next_step[1], @)
                       ELSE @ + 1]
          ELSE IF RetryAfterFailure(rc)
          THEN [result EXCEPT !.pc = "head", !.retry_count[i] = <<rc - 1>>]
          ELSE [result EXCEPT !.pc = "returned", !.returned = Some(FALSE)]
    /\ UNCHANGED shippedFrame

NextShipped ==
    \/ \E stop \in BOOLEAN : ShippedHead(stop)
    \/ \E success \in BOOLEAN, next_step \in NextStepIds :
           ShippedReturn([success |-> success, next_step |-> next_step])

SpecShipped == InitShipped /\ [][NextShipped]_vars

\* The bot is not left paused forever and every handler call returns.
FairShipped == SpecShipped /\ WF_vars(NextShipped)

\* ------------------------------------------------------------- properties
ErrorOrder == <<"screenshot", "restart_game", "restart_emulator", "restart_game">>
IsPrefix(s, t) == Len(s) <= Len(t) /\ SubSeq(t, 1, Len(s)) = s
HandledEv == ev.kind \in {"recovered", "gave_up", "escaped"}

\* C1: start() on a stopped bot sets running, clears paused and the stop flag
\* and spawns one worker only if the connectivity check passed; if the check
\* failed, or the bot was already running, running, paused, the stop flag, the
\* statistics start time and the set of workers are what they were.
C1_StartContract ==
    [][ev'.kind = "start" =>
         IF ~running /\ ev'.conn
         THEN /\ running' /\ ~paused' /\ ~stop_event'
              /\ Cardinality(Spawned') = Cardinality(Spawned) + 1
              /\ Spawned \subseteq Spawned'
         ELSE /\ UNCHANGED <<running, paused, stop_event, pc>>
              /\ statistics'.start_time = statistics.start_time]_vars

\* A refused start: the bot is stopped, the check failed, nothing was spawned.
C1_Witness ==
    ev.kind = "start" /\ ~ev.conn /\ ~running /\ Spawned = {} /\ nCalls > 0

\* C2: at most one worker executes the worker loop, hence at most one tutorial
\* step handler is in flight, whatever start(), stop(), pause() and resume()
\* calls interleave with it.
C2_OneHandlerInFlight ==
    Cardinality({w \in Workers : pc[w] = "handler"}) <= 1

\* C3: after stop() on a running bot, with no start() since, a worker whose
\* in-flight handler has returned (or that had committed to no step when
\* stop() was called) dispatches no step handler, and its loop exits.
C3_StopQuiesces ==
    /\ [](\A w \in Workers :
            hist[w].afterStop \in {"quiet", "returned"} =>
                pc[w] \notin {"tut_dispatch", "handler"})
    /\ \A w \in Workers :
            (hist[w].afterStop \in {"quiet", "returned"}) ~>
                (pc[w] = "done" \/ hist[w].afterStop = "none")

\* A worker that was inside a handler at stop() and has left its loop.
C3_Witness ==
    \E w \in Workers :
        /\ hist[w].afterStop = "returned" /\ pc[w] = "done"
        /\ ~running /\ stop_event /\ current_step_id > 0

\* C4: a pass begins only for a server number not below end_server; with
\* start_server = end_server a worker performs at most one pass, and has set
\* running to false when it leaves its loop; with current_server below
\* end_server when the worker starts, it performs no pass.
C4_ServerRange ==
    \A w \in Workers :
        /\ ev.kind = "begin_pass" => current_server >= settings.end_server
        /\ settings.start_server = settings.end_server =>
                /\ hist[w].passes <= 1
                /\ hist[w].passes = 1 /\ pc[w] = "done" => ~running
        /\ settings.start_server < settings.end_server => hist[w].passes = 0

\* The single pass of a bot configured with start_server = end_server is over
\* and the worker has stopped the bot.
C4_Witness ==
    \E w \in Workers :
        /\ settings.start_server = settings.end_server
        /\ hist[w].passes = 1 /\ pc[w] = "done" /\ ~running
        /\ statistics.success_count + statistics.failure_count = 1

\* C5: while the bot is running current_server never increases, whatever the
\* GUI thread does in between, a settings-changed event included.
C5_ServerNeverIncreases ==
    [][running /\ running' => current_server' <= current_server]_vars

\* C6: a step whose handler keeps failing is dispatched r + 1 times, r being
\* its retry_count when its turn came (3 if absent); every failed attempt but
\* the last lowers the counter by exactly one, and the run then ends in
\* failure at that step.
C6_RetryBudget ==
    \A w \in Workers :
        /\ hist[w].att <= hist[w].r0 + 1
        /\ ev.kind = "handler_retry" /\ ev.w = w =>
                get_param_retry_count(ev.step) = hist[w].r0 - hist[w].att
        /\ ev.kind = "handler_exhausted" /\ ev.w = w =>
                /\ hist[w].att = hist[w].r0 + 1
                /\ get_param_retry_count(ev.step) = 0
                /\ pc[w] = "after_tut" /\ ~tutorial_success[w]
                /\ step_index[w] = ev.step - 1

\* A step given retry_count 2 has been dispatched three times and the run has
\* ended in failure.
C6_Witness ==
    \E w \in Workers :
        /\ ev.kind = "handler_exhausted" /\ ev.w = w
        /\ hist[w].r0 = 2 /\ hist[w].att = 3

\* C7: _handle_error tries screenshot, game restart, emulator reboot and game
\* restart in that order, each only after the one before failed: a live
\* screenshot ends it recovered with nothing restarted, and a game restart
\* that succeeds after a dead screenshot ends it recovered with exactly one
\* game restart and no reboot.
C7_TierOrder ==
    HandledEv =>
        LET in == ev.input
            out == ev.he
            gameOk == restart_game(in.closeOk, in.startOk)
        IN  /\ Len(out.trace) >= 1 /\ IsPrefix(out.trace, ErrorOrder)
            /\ Len(out.trace) >= 2 => in.shot # "ok"
            /\ Len(out.trace) >= 3 => ~gameOk
            /\ Len(out.trace) >= 4 => restart_emulator(in.reboot)
            /\ in.shot = "ok" => out.recovered /\ out.trace = <<"screenshot">>
            /\ in.shot # "ok" /\ gameOk =>
                    /\ out.recovered
                    /\ out.trace = <<"screenshot", "restart_game">>

\* The screenshot failed and the game restart ended the recovery.
C7_Witness ==
    /\ HandledEv /\ ev.input.shot = "raise" /\ ev.he.recovered
    /\ ev.he.trace = <<"screenshot", "restart_game">>

\* C8: when the screenshot fails, force-stop and launch report failure and
\* the reboot fails, _handle_error attempts screenshot, game restart and
\* emulator reboot in order and reports failure.
C8_UnresponsiveFails ==
    (/\ HandledEv
     /\ ev.input.shot # "ok" /\ ~ev.input.closeOk /\ ~ev.input.startOk
     /\ ev.input.reboot # "ok") =>
        /\ ~ev.he.recovered
        /\ ev.he.trace = <<"screenshot", "restart_game", "restart_emulator">>

\* C9: after an exception the worker retries the same server when recovery
\* succeeded and fewer than three recoveries came before; otherwise it records
\* one failure for current_server, lowers current_server by one and resets
\* the recovery counter.  The counter never passes three.
C9_RecoveryBudget ==
    /\ [][ev'.kind \in {"recovered", "gave_up"} =>
            LET w == ev'.w IN
            IF ev'.he.recovered /\ recovery_attempts[w] < 3
            THEN /\ ev'.kind = "recovered"
                 /\ current_server' = current_server
                 /\ recovery_attempts'[w] = recovery_attempts[w] + 1
                 /\ statistics'.failure_count = statistics.failure_count
                 /\ statistics'.failed_servers = statistics.failed_servers
                 /\ pc'[w] = "run_while"
            ELSE /\ ev'.kind = "gave_up"
                 /\ statistics'.failure_count = statistics.failure_count + 1
                 /\ statistics'.failed_servers =
                        Append(statistics.failed_servers, current_server)
                 /\ current_server' = current_server - 1
                 /\ recovery_attempts'[w] = 0]_vars
    /\ [](\A w \in Workers : recovery_attempts[w] \in 0..3)

\* The fourth exception in a row, after three recoveries: the server has been
\* given up although this recovery succeeded too.
C9_Witness ==
    /\ ev.kind = "gave_up" /\ ev.he.recovered
    /\ recovery_attempts[ev.w] = 0
    /\ statistics.error_count >= 4 /\ statistics.failure_count >= 1

\* C10: _handle_error returns a boolean and raises nothing, and an exception
\* that leaves the loop's own handler ends the worker with running false and
\* exactly one more error counted.
C10_NothingEscapes ==
    /\ [](HandledEv => ~ev.he.raised /\ ev.he.recovered \in BOOLEAN)
    /\ [][ev'.kind = "critical" =>
            /\ ~running'
            /\ statistics'.error_count = statistics.error_count + 1
            /\ pc[ev'.w] = "critical" /\ pc'[ev'.w] = "done"]_vars
    /\ [](\A w \in Workers : pc[w] = "critical" => ev.kind = "escaped")

\* The outer handler has run.
C10_Witness ==
    /\ ev.kind = "critical" /\ pc[ev.w] = "done" /\ ~running
    /\ statistics.error_count >= 2

\* C11: every call of create_tutorial_steps() in one process returns the
\* same ordered list, one step per catalog entry, each with the id,
\* description, action type and parameters the catalog declares.
C11_SameListEveryCall ==
    \A n \in 1..Len(built) :
        /\ built[n] # "KeyError"
        /\ Len(built[n]) = CatalogLen
        /\ \A i \in 1..CatalogLen :
              built[n][i] =
                  TutorialStep(i, "step", steps_data[i]["action_type"],
                               Pop(steps_data[i], "action_type"))

\* C12: in every reachable state of the bot paused implies running, also
\* after stop() on a paused bot and after the worker halted itself.
C12_PausedImpliesRunning == paused => running

\* C13: pause() on a stopped or paused bot and resume() on a stopped or
\* unpaused bot leave running, paused and the stop flag as they were; pause()
\* on a running unpaused bot sets paused and resume() on a running paused bot
\* clears it, and neither changes anything else of the bot.
C13_PauseResumeFrame ==
    [][ev'.kind \in {"pause", "resume"} =>
         /\ UNCHANGED <<running, stop_event, settings, progress, retry_count,
                        statistics, workerVars>>
         /\ paused' = IF ~running THEN paused
                      ELSE IF ev'.kind = "pause" THEN TRUE ELSE FALSE]_vars

\* resume() has taken effect on a bot that pause() had paused.
C13_Witness ==
    /\ ev.kind = "resume" /\ running /\ ~paused
    /\ nCalls = MaxCalls /\ Live # {}

\* The seasons whose range in the table contains server n.
SeasonsHolding(n) ==
    {season \in DOMAIN SEASON_SERVER_RANGES :
        /\ SEASON_SERVER_RANGES[season][1] <= n
        /\ n <= SEASON_SERVER_RANGES[season][2]}

\* C14: for every server number in 1..600 the lookup returns one of the eight
\* seasons of the table, and that season's range is the one range of the
\* table that contains the number.
C14_SeasonCoversServer ==
    (result # <<>> /\ arg \in FirstServer..LastServer) =>
        /\ result.helpers \in DOMAIN SEASON_SERVER_RANGES
        /\ SeasonsHolding(arg) = {result.helpers}

\* C15: for server 0 and for server 601 the lookup returns the unknown
\* season, in the helper and in the statistics object's copy.
C15_UnknownOutsideTable ==
    (result # <<>> /\ arg \in {FirstServer - 1, LastServer + 1}) =>
        /\ result.helpers = "unknown"
        /\ result.statistics = "unknown"

\* C16: an interactive command is issued no sooner than the minimum
\* inter-action interval after the completion of the command before it.
C16_MinimumInterval ==
    adb # <<>> /\ adb.gap # NoCommand => adb.gap >= min_action_interval

CallsOf(ops) == SelectSeq(stat_calls, LAMBDA c : c.op \in ops)
RecordsOf(results) ==
    SelectSeq(stats.server_history, LAMBDA r : r.result \in results)

StatisticsConsistent ==
    LET attempts == CallsOf({"add_success", "add_failure"})
        records == RecordsOf({"success", "failure"})
    IN  /\ stats.success_count = Len(stats.completed_servers)
        /\ stats.failure_count = Len(stats.failed_servers)
        /\ stats.success_count = Len(CallsOf({"add_success"}))
        /\ stats.failure_count = Len(CallsOf({"add_failure"}))
        /\ Len(records) = Len(attempts)
        /\ \A k \in 1..Len(attempts) :
               /\ records[k].server = attempts[k].server[1]
               /\ records[k].result = IF attempts[k].op = "add_success"
                                      THEN "success" ELSE "failure"
        /\ stats.error_count = Len(CallsOf({"add_error"}))

AddErrorStep ==
    /\ Len(stat_calls') = Len(stat_calls) + 1
    /\ stat_calls'[Len(stat_calls')].op = "add_error"

ErrorRecordedOnlyForKnownServer ==
    AddErrorStep =>
        /\ stats'.error_count = stats.error_count + 1
        /\ \/ stats'.server_history = stats.server_history
           \/ /\ stats.current_server # <<>>
              /\ Len(stats'.server_history) = Len(stats.server_history) + 1
              /\ SubSeq(stats'.server_history, 1, Len(stats.server_history))
                     = stats.server_history
              /\ stats'.server_history[Len(stats'.server_history)].result
                     = "error"
              /\ stats'.server_history[Len(stats'.server_history)].server
                     = stats.current_server[1]

\* C18: after any sequence of add_success, add_failure, add_error and
\* set_current_progress calls on a fresh statistics object, success_count is
\* the length of completed_servers, failure_count the length of
\* failed_servers, the history holds one record per add_success and
\* add_failure call in call order, every add_error adds one to error_count,
\* and add_error appends an 'error' record only if a current server is known.
C18_StatisticsInvariants ==
    /\ []StatisticsConsistent
    /\ [][ErrorRecordedOnlyForKnownServer]_vars

\* An error counted without a record, one counted with its record, and a
\* success recorded.
C18_Witness ==
    /\ stats # <<>>
    /\ stats.error_count = 2
    /\ Len(RecordsOf({"error"})) = 1
    /\ stats.success_count = 1
    /\ Len(stats.server_history) = 2

RECURSIVE SumDurations(_)
SumDurations(calls) ==
    IF calls = <<>> THEN 0
    ELSE calls[1].duration + SumDurations(Tail(calls))

\* Successes of 10 s and 20 s, in either order, and one failure.
TenTwentyAndAFailure ==
    LET successes == CallsOf({"add_success"}) IN
    /\ Len(successes) = 2
    /\ {successes[1].duration, successes[2].duration} = {10, 20}
    /\ Len(CallsOf({"add_failure"})) = 1

AveragesAsStated ==
    LET average == get_average_time(stats)
        rate == get_success_rate(stats)
        successes == CallsOf({"add_success"})
        failures == CallsOf({"add_failure"})
    IN  /\ (average = <<>>) <=> (stats.success_count = 0)
        /\ average # <<>> =>
               /\ average[1].num = SumDurations(successes)
               /\ average[1].den = stats.success_count
        /\ (rate = <<>>) <=> (Len(successes) = 0 /\ Len(failures) = 0)
        /\ rate # <<>> =>
               /\ rate[1].num = stats.success_count
               /\ rate[1].den = stats.success_count + stats.failure_count
               /\ rate[1].times = 100
        /\ TenTwentyAndAFailure =>
               /\ average[1].num = 15 * average[1].den
               /\ 3 * rate[1].num = 2 * rate[1].den
               /\ rate[1].times = 100

ErrorsLeaveAveragesAlone ==
    AddErrorStep =>
        /\ get_average_time(stats') = get_average_time(stats)
        /\ get_success_rate(stats') = get_success_rate(stats)

\* C19: get_average_time() is the accumulated success duration divided by
\* success_count and absent exactly when success_count = 0; get_success_rate()
\* is success_count / (success_count + failure_count) x 100 and absent exactly
\* when no success and no failure was recorded; successes of 10 s and 20 s
\* plus one failure give 15 and 2/3 x 100; an add_error changes neither.
C19_AverageAndRate ==
    /\ []AveragesAsStated
    /\ [][ErrorsLeaveAveragesAlone]_vars

\* The stated example, with an error recorded as well.
C19_Witness ==
    /\ stats # <<>>
    /\ TenTwentyAndAFailure
    /\ stats.error_count = 1
    /\ get_average_time(stats) = Some([num |-> 30, den |-> 2])

\* C20: saving a settings object to its JSON file and loading that file into
\* a fresh settings instance reproduces the value of every settings field
\* exactly, for every combination of field values.
C20_SettingsRoundTrip ==
    (result # <<>> /\ result.loaded_from # <<>>) =>
        \A k \in DOMAIN arg : result.settings[k] = arg[k]

\* A fresh instance loaded from the file of an object none of whose fields
\* has its default value.
C20_Witness ==
    /\ result # <<>>
    /\ config_file # <<>>
    /\ result.loaded_from = config_file
    /\ \A k \in SettingsFields : arg[k] = OtherSettings[k]
    /\ result.settings.performance_interval = PyFloat(25)

\* C21: loading a configuration file applies a key only if it names one of
\* the known settings fields; every other key changes no field and no other
\* attribute of the object, its config path and its methods included.
C21_OnlyFieldsApplied ==
    result # <<>> =>
        \A k \in DOMAIN arg :
            k \notin SettingsFields => result.settings[k] = arg[k]

\* C22: after reset_to_defaults() every settings field has its default value
\* whatever files exist in the working directory, the object's config_path is
\* unchanged, and the object's configuration file is neither created nor
\* modified.
C22_ResetToDefaults ==
    result # <<>> =>
        /\ \A k \in SettingsFields :
               result.settings[k] = BotSettings_init("config.json")[k]
        /\ result.settings.config_path = arg.config_path
        /\ config_file[arg.config_path[2]]
               = result.files_before[arg.config_path[2]]

FirstReady(listing) ==
    LET ready == SelectSeq(listing, LAMBDA d : d.state = StateDevice)
    IN  IF ready = <<>> THEN <<>> ELSE Some(ready[1].id)

\* C23: constructed without a device id, the transport binds to the first
\* device the bridge tool lists in the ready state; construction fails if no
\* device is listed or if a supplied id is absent from the listing.
C23_BindsFirstReadyDevice ==
    (result # <<>> /\ arg.success) =>
        /\ (arg.device_id = <<>> /\ FirstReady(arg.listing) # <<>>) =>
               /\ ~result.raised
               /\ result.device_id = FirstReady(arg.listing)
        /\ arg.listing = <<>> => result.raised
        /\ (/\ arg.device_id # <<>>
            /\ \A i \in 1..Len(arg.listing) :
                   arg.listing[i].id # arg.device_id[1]) => result.raised

\* C24: check_resources() returns not-OK exactly when system CPU > 95 %, or
\* system memory > 90 %, or disk usage > 95 %, or available memory < 500 MB
\* (95 % and 500 MB are OK, 96 % and 499 MB are not); when the check itself
\* raises, it returns OK.
C24_ResourceLimits ==
    LET overLimit == \/ arg.sample.cpu > 95 * 10
                     \/ arg.sample.memory > 90 * 10
                     \/ arg.sample.disk > 95 * 10
                     \/ arg.sample.available < 500 * 1024 * 1024
    IN  result # <<>> =>
            /\ result.raised => result.ok
            /\ ~result.ok => overLimit
            /\ (~arg.updateRaises /\ ~arg.availableRaises /\ overLimit)
                   => ~result.ok

BoxSet(boxes) == {boxes[k] : k \in 1..Len(boxes)}

\* C25: applying the overlap-suppression pass to its own output yields the
\* same set of rectangles as applying it once, for every input.
C25_SuppressionIdempotent ==
    result # <<>> =>
        \A idxs \in Orders(result.boxes) :
            BoxSet(non_max_suppression(result.boxes, idxs))
                = BoxSet(result.boxes)

\* A pass that dropped a rectangle and kept two.
C25_Witness ==
    /\ result # <<>>
    /\ Len(result.boxes) = 2
    /\ Len(arg.boxes) = 3
    /\ BoxSet(arg.boxes) # BoxSet(result.boxes)

\* C26: of two rectangles whose overlap, relative to the smaller one's area,
\* exceeds 0.3, the pass keeps only the one of larger area; two disjoint
\* rectangles are both kept.
C26_LargerSurvives ==
    (result # <<>> /\ Len(arg.boxes) = 2) =>
        LET c == corners(arg.boxes[1])
            d == corners(arg.boxes[2])
            larger == IF box_area(c) > box_area(d) THEN 1 ELSE 2
            smallerArea == Minimum(box_area(c), box_area(d))
        IN  /\ (/\ box_area(c) # box_area(d)
                /\ 10 * intersection(c, d) > 3 * smallerArea) =>
                   result.boxes = <<arg.boxes[larger]>>
            /\ intersection(c, d) = 0 =>
                   BoxSet(result.boxes) = BoxSet(arg.boxes)

\* A handler is dispatched after an earlier one succeeded.
DispatchAfterSuccess ==
    /\ result.pc = "head"
    /\ result'.pc = "handler"
    /\ result.last # <<>>
    /\ result.last.success

\* C27: after a handler succeeds with an explicit next-step id, the next step
\* dispatched is the first step in list order whose step_id equals that id;
\* after a handler succeeds without one, it is the step at the following list
\* position.
C27_NextStepDispatched ==
    [][DispatchAfterSuccess =>
          LET at == result'.current_step_index + 1
              next_step == result.last.next_step
          IN  /\ (next_step # <<>> /\ Positions(arg, next_step[1]) # {}) =>
                     /\ arg[at] = next_step[1]
                     /\ \A i \in 1..(at - 1) : arg[i] # next_step[1]
              /\ next_step = <<>> => at = result.last.index + 2]_vars

\* A jump back to an id that two steps of the list carry.
C27_Witness ==
    /\ result.pc = "handler"
    /\ result.last # <<>>
    /\ result.last.success
    /\ result.last.next_step # <<>>
    /\ Cardinality(Positions(arg, result.last.next_step[1])) = 2
    /\ result.last.index = TutorialLen - 1
    /\ arg[result.current_step_index + 1] = result.last.next_step[1]

\* C28: _execute_step for a step whose action type has no handler returns
\* failure with no next-step id, raises no exception and issues no device
\* command; an exception raised inside a handler is likewise turned into a
\* step failure rather than propagated.
C28_ExecuteStepNeverRaises ==
    result # <<>> =>
        /\ ~result.raised
        /\ arg.type \notin HandlerTypes \cup {"step"} =>
               /\ ~result.success
               /\ result.next_step = <<>>
               /\ result.commands = <<>>
        /\ (arg.type \in HandlerTypes /\ arg.run.raises) =>
               /\ ~result.success
               /\ result.next_step = <<>>

\* A handler that raised after it had issued a command.
C28_Witness ==
    /\ result # <<>>
    /\ arg.type = "click_image"
    /\ arg.run.raises
    /\ arg.run.commands # <<>>
    /\ ~result.success

\* C29: while the bot is running with paused set, the worker dispatches no
\* new step handler and changes neither the tutorial step index nor
\* current_server.
C29_PausedWorkerHolds ==
    [][(running /\ paused /\ running' /\ paused' /\ "w" \in DOMAIN ev') =>
          /\ ev'.kind # "dispatch"
          /\ step_index' = step_index
          /\ current_server' = current_server]_vars

\* C30: when select_server does not find the target in its 20 scroll
\* attempts, it selects the largest recognised number strictly below the
\* target and sets current_server to it; it fails only if no recognised
\* number is below the target; when the target is found, current_server is
\* left unchanged.
C30_FallbackBelowTarget ==
    (result # <<>> /\ ~arg.raises) =>
        LET below == {n \in arg.numbers : n < arg.current_server} IN
        /\ (arg.foundAt = 0 /\ below # {}) =>
               /\ result.clicked # <<>>
               /\ result.clicked[1] \in below
               /\ \A n \in below : n <= result.clicked[1]
               /\ result.current_server = result.clicked[1]
        /\ (arg.foundAt = 0 /\ ~result.success) => below = {}
        /\ arg.foundAt # 0 => result.current_server = arg.current_server

\* C31: repeat_click_until_image with max_attempts = m > 0 clicks (x, y) at
\* most m times and returns failure only after m screenshot checks that did
\* not find the target image; with max_attempts = 0 it never returns failure
\* and returns only when the target image is found.
C31_FailsOnlyWhenExhausted ==
    /\ arg.max_attempts > 0 => result.clicks <= arg.max_attempts
    /\ (result.returned = Some(FALSE)) =>
           /\ arg.max_attempts > 0
           /\ result.misses = arg.max_attempts
    /\ (arg.max_attempts = 0 /\ result.returned # <<>>) =>
           /\ result.returned = Some(TRUE)
           /\ result.checks = result.misses + 1

C32_FoundAfterEsc ==
    /\ arg.with_esc
    /\ result.found
    /\ Len(result.esc) >= 1

\* The recognised text holds one of the tolerated readings of the season
\* word.
WordTolerated(text) ==
    \/ IsSubstring(<<"cyr_es", "cyr_ie", "cyr_ze">>, lower(text))
    \/ IsSubstring(<<"c", "e", "3">>, lower(text))
    \/ IsSubstring(<<"cyr_es", "e", "cyr_ze">>, lower(text))

\* The recognised text holds the target's letter and digit under one of the
\* confusions: S, s or 5 for S; X, x or the Cyrillic letter for X.
SuffixConfused(text, target_season) ==
    LET letter == target_season[Len(target_season) - 1]
        digit == target_season[Len(target_season)]
        readings == IF letter = "S" THEN {"S", "s", "5"}
                    ELSE {"X", "x", "CYR_HA", "cyr_ha"}
    IN  \E i \in 1..(Len(text) - 1) :
            text[i] \in readings /\ text[i + 1] = digit

\* C33: find_season accepts a text region for a target season when the text
\* does not contain the exact season name but does contain a tolerated
\* corruption of the season word together with the season's letter and digit
\* under an OCR confusion (5 read for S, a Cyrillic letter read for X).
C33_FuzzyMatchAccepts ==
    (/\ result # <<>>
     /\ ~result.exact
     /\ WordTolerated(arg.text)
     /\ SuffixConfused(arg.text, arg.target_season)) => result.accepted

\* C34: applying the same statistics snapshot to the statistics panel
\* repeatedly leaves the detail table with exactly one row per history
\* entry, however much time elapses between the entry's creation and the
\* pushes.
C34_OneRowPerEntry ==
    result.pushes >= 1 => Len(result.rows) = Len(arg)

\* C35: when the main window's start action returns with is_bot_running set,
\* the bot's own running flag is true: the window flips its flag only when
\* bot.start() actually started the bot, not when start() refused because
\* the connectivity check failed.
C35_WindowFlagFollowsBot ==
    (/\ result # <<>>
     /\ result.last = "start"
     /\ result.window.is_bot_running) =>
        /\ result.window.bot # <<>>
        /\ result.window.bot[1].running

\* C36: the settings object the main window holds, and that every bot it
\* builds uses, is the one loaded from the configuration path resolved from
\* --config (default config/config.json).
C36_WindowUsesLoadedSettings ==
    result # <<>> =>
        /\ result.window.settings = result.settings
        /\ result.window.settings.config_path = resolve_config_path(arg.config)
        /\ result.window.bot # <<>> =>
               result.window.bot[1].settings = result.settings

\* The retry budget a vector of retry_count parameters gives step i.
BudgetOf(params, i) ==
    IF params[i] = Absent THEN DefaultRetryCount ELSE params[i][1]

\* C37: a step's retry_count is never increased or reset during a bot's
\* lifetime: failures of the same step in passes for different servers draw
\* on one budget, so a step with initial budget r is retried at most r times
\* in total (each retry lowers the budget by one, nothing else changes it,
\* and it never falls below 0), and once the budget is 0 the step's first
\* failure in any later pass aborts that pass immediately.
C37_OneBudgetForAllPasses ==
    [][/\ \A i \in 1..NSteps :
              /\ BudgetOf(retry_count', i) <= BudgetOf(retry_count, i)
              /\ BudgetOf(retry_count', i) <= BudgetOf(arg, i)
              /\ BudgetOf(retry_count', i) >= 0
              /\ BudgetOf(retry_count', i) # BudgetOf(retry_count, i) =>
                     /\ ev'.kind = "handler_retry"
                     /\ ev'.step = i
       /\ ev'.kind = "handler_retry" =>
              /\ BudgetOf(retry_count, ev'.step) > 0
              /\ BudgetOf(retry_count', ev'.step)
                     = BudgetOf(retry_count, ev'.step) - 1
              /\ pc'[ev'.w] = "tut_while"
       /\ (/\ ev'.kind \in {"handler_retry", "handler_exhausted"}
           /\ BudgetOf(retry_count, ev'.step) = 0) =>
              /\ ev'.kind = "handler_exhausted"
              /\ pc'[ev'.w] = "after_tut"
              /\ ~tutorial_success'[ev'.w]
              /\ retry_count' = retry_count]_vars

\* In its second pass a step created with a budget fails for the first time
\* and the pass is aborted at once: the first pass used the budget up.
C37_Witness ==
    /\ ev.kind = "handler_exhausted"
    /\ hist[ev.w].passes = 2
    /\ hist[ev.w].att = 1
    /\ BudgetOf(arg, ev.step) >= 1
    /\ BudgetOf(retry_count, ev.step) = 0

\* C38: when stop() interrupts a tutorial pass, the worker records exactly
\* one failure for the interrupted server and decrements current_server
\* before it exits, so a later start() resumes at the next lower server:
\* the interrupted _complete_tutorial returns False and records nothing
\* itself; the worker's next step appends the server to the failures, counts
\* it once and lowers current_server by one; and a worker that then finds
\* the bot stopped leaves its loop without recording or lowering anything
\* more.
C38_InterruptedPassCountsAsFailure ==
    [][\A w \in Workers :
          ("w" \in DOMAIN ev' /\ ev'.w = w) =>
              /\ ev'.kind = "tut_interrupted" =>
                     /\ stop_event \/ ~running
                     /\ pc'[w] = "after_tut"
                     /\ ~tutorial_success'[w]
                     /\ statistics' = statistics
                     /\ current_server' = current_server
              /\ (pc[w] = "after_tut" /\ ~tutorial_success[w]) =>
                     /\ ev'.kind = "advance"
                     /\ statistics'.failure_count
                            = statistics.failure_count + 1
                     /\ statistics'.failed_servers
                            = Append(statistics.failed_servers, current_server)
                     /\ statistics'.success_count = statistics.success_count
                     /\ current_server' = current_server - 1
                     /\ pc'[w] \in {"run_while", "done"}
              /\ (pc[w] = "run_while" /\ (stop_event \/ ~running)) =>
                     /\ pc'[w] = "done"
                     /\ statistics' = statistics
                     /\ current_server' = current_server]_vars

\* The first worker was interrupted on the higher server and has left; the
\* second start()'s worker begins its pass on the next lower server.
C38_Witness ==
    /\ ev.kind = "begin_pass"
    /\ ev.w = 2
    /\ pc[1] = "done"
    /\ settings.start_server = MinServer + 1
    /\ statistics.failed_servers = <<MinServer + 1>>
    /\ statistics.failure_count = 1
    /\ statistics.success_count = 0
    /\ current_server = MinServer
    /\ retry_count = [i \in 1..NSteps |-> Absent]

\* The retry budget left over all steps.
RECURSIVE BudgetLeft(_, _)
BudgetLeft(params, i) ==
    IF i = 0 THEN 0 ELSE BudgetOf(params, i) + BudgetLeft(params, i - 1)

\* An iteration of the loop: the handler has returned and the function has
\* not.
Iterated == result.pc = "handler" /\ result'.pc = "head"

\* C39: with the shipped step catalog, if the bot is not left paused forever
\* and every handler call returns, _complete_tutorial terminates: every
\* iteration either moves to a later list position, or consumes one unit of
\* a finite retry budget, or returns; the catalog's only jump goes forward,
\* and a jump to an id that no step has would leave the index unchanged.
C39_TutorialTerminates ==
    /\ [][/\ Iterated =>
               \/ /\ result'.current_step_index > result.current_step_index
                  /\ result'.current_step_index <= Len(arg)
                  /\ result'.retry_count = result.retry_count
               \/ /\ result'.current_step_index = result.current_step_index
                  /\ BudgetLeft(result'.retry_count, TutorialLen)
                         = BudgetLeft(result.retry_count, TutorialLen) - 1
                  /\ \A i \in 1..TutorialLen :
                         BudgetOf(result'.retry_count, i) >= 0
          /\ find_step(arg, next_step_on_priority(arg), priority_position - 1)
                 > priority_position - 1
          /\ find_step(arg, TutorialLen + 1, result.current_step_index)
                 = result.current_step_index]_vars
    /\ <>(result.pc = "returned")

\* The pass came through the jump and every retry of a step before it ended.
C39_Witness ==
    /\ result.pc = "returned"
    /\ result.returned = Some(TRUE)
    /\ result.retry_count[priority_position] = <<0>>
    /\ result.retry_count[TutorialLen] = <<0>>

\* C40: whenever the worker dispatches a step handler, current_season equals
\* the season lookup of current_server, also for the steps that follow a
\* select_server fallback that lowered current_server during the pass.
C40_SeasonMatchesServerAtDispatch ==
    [][ev'.kind = "dispatch" =>
          current_season' = get_season_for_server(current_server')]_vars

====
